---- MODULE Spec2Model ----
(***************************************************************************)
(* Fynstra: the Financial Health Index (FHI) calculator.                   *)
(*                                                                         *)
(* Two Streamlit programs carry a calculator: app.py (validation, then     *)
(* calculate_fhi) and Fynstra.py (the same formulas written inline, with   *)
(* pages/3_Goal_Tracker.py as one of its pages).  The module models        *)
(*   - the pure functions validate_financial_inputs and calculate_fhi,     *)
(*     applied to profiles drawn from bounded sets (SpecFn for valid       *)
(*     profiles, SpecAny for amounts of either sign);                      *)
(*   - one browser session of either program: st.session_state, the page   *)
(*     shown and what the current script run rendered (Spec).              *)
(*                                                                         *)
(* Numbers.  Python computes with binary floats; the model computes with   *)
(* exact rationals n/d in lowest terms.  Amounts are whole currency units, *)
(* for which every comparison the code makes against a bound (0, 100,      *)
(* income * 1.1) has the same outcome in both arithmetics.  A division by  *)
(* zero raises ZeroDivisionError in Python; here it yields the value       *)
(* Raised (d = 0), which every later operation propagates, as the          *)
(* exception would propagate out of the function.                          *)
(***************************************************************************)
EXTENDS Integers, Sequences, FiniteSets, TLC

----------------------------------------------------------------------------
(* Bounds of the model. *)

\* monthly amounts (income, expenses, savings, debt) range over 0..MaxMonthly
MaxMonthly == 2
\* total investments and net worth range over {0, 30, ..., 30 * MaxStock}
MaxStock == 2
\* the emergency fund ranges over {0, 3, ..., 3 * MaxEmerg}
MaxEmerg == 3

\* st.number_input("Your Age", min_value=18, max_value=100)
MinAge == 18
MaxAge == 100

----------------------------------------------------------------------------
(* Exact rational arithmetic standing for Python's float arithmetic. *)

Abs(x) == IF x < 0 THEN -x ELSE x

RECURSIVE GCD(_, _)
GCD(a, b) == IF b = 0 THEN a ELSE GCD(b, a % b)

\* the value a raised ZeroDivisionError leaves behind
Raised == [n |-> 0, d |-> 0]

IsRaised(q) == q.d = 0

Norm(n, d) ==
  IF d = 0 THEN Raised
  ELSE LET g == GCD(Abs(n), Abs(d))
           s == IF d < 0 THEN -1 ELSE 1
       IN  [n |-> (s * n) \div g, d |-> (s * d) \div g]

R(i) == [n |-> i, d |-> 1]

Frac(n, d) == Norm(n, d)

RatAdd(p, q) == IF IsRaised(p) \/ IsRaised(q) THEN Raised
                ELSE Norm(p.n * q.d + q.n * p.d, p.d * q.d)

RatSub(p, q) == IF IsRaised(p) \/ IsRaised(q) THEN Raised
                ELSE Norm(p.n * q.d - q.n * p.d, p.d * q.d)

RatMul(p, q) == IF IsRaised(p) \/ IsRaised(q) THEN Raised
                ELSE Norm(p.n * q.n, p.d * q.d)

\* Python's / on floats: ZeroDivisionError when the divisor is 0
RatDiv(p, q) == IF IsRaised(p) \/ IsRaised(q) \/ q.n = 0 THEN Raised
                ELSE Norm(p.n * q.d, p.d * q.n)

\* comparisons of two values (never applied to Raised)
RatLt(p, q) == p.n * q.d < q.n * p.d
RatLe(p, q) == p.n * q.d <= q.n * p.d
RatGt(p, q) == RatLt(q, p)
RatGe(p, q) == RatLe(q, p)

\* Python's min(p, q) and max(p, q)
RatMin(p, q) == IF IsRaised(p) \/ IsRaised(q) THEN Raised
                ELSE IF RatLt(q, p) THEN q ELSE p

RatMax(p, q) == IF IsRaised(p) \/ IsRaised(q) THEN Raised
                ELSE IF RatGt(q, p) THEN q ELSE p

InRange(q, lo, hi) == ~IsRaised(q) /\ RatLe(R(lo), q) /\ RatLe(q, R(hi))

----------------------------------------------------------------------------
(* validate_financial_inputs, app.py *)

ErrDebt == "Your monthly debt payments exceed your income"
WarnExpenses == "Your monthly expenses exceed your income"
WarnTotal == "Your total monthly obligations seem high relative to income"

\* a validator whose comparisons accept equality
validate_inclusive(income, expenses, debt, savings) ==
  [errors   |-> IF debt >= income THEN <<ErrDebt>> ELSE << >>,
   warnings |-> (IF expenses >= income THEN <<WarnExpenses>> ELSE << >>)
                \o (IF RatGe(R(savings + expenses + debt), RatMul(R(income), Frac(11, 10)))
                    THEN <<WarnTotal>> ELSE << >>)]

validate_financial_inputs(income, expenses, debt, savings) ==
  [errors   |-> IF debt > income THEN <<ErrDebt>> ELSE << >>,
   warnings |-> (IF expenses > income THEN <<WarnExpenses>> ELSE << >>)
                \o (IF RatGt(R(savings + expenses + debt), RatMul(R(income), Frac(11, 10)))
                    THEN <<WarnTotal>> ELSE << >>)]

----------------------------------------------------------------------------
(* calculate_fhi, app.py *)

\* brackets that put the ages 30, 40 and 50 in the lower bracket
TargetMultipliersLe(age) ==
  IF age <= 30 THEN [alpha |-> Frac(5, 2), beta |-> R(2)]
  ELSE IF age <= 40 THEN [alpha |-> R(3), beta |-> R(3)]
  ELSE IF age <= 50 THEN [alpha |-> Frac(7, 2), beta |-> R(4)]
  ELSE [alpha |-> R(4), beta |-> R(5)]

\* the age-based target multipliers (alpha, beta)
TargetMultipliers(age) ==
  IF age < 30 THEN [alpha |-> Frac(5, 2), beta |-> R(2)]
  ELSE IF age < 40 THEN [alpha |-> R(3), beta |-> R(3)]
  ELSE IF age < 50 THEN [alpha |-> Frac(7, 2), beta |-> R(4)]
  ELSE [alpha |-> R(4), beta |-> R(5)]

\* Nworth with no upper clamp
NworthNoCap(net_worth, annual_income, alpha) ==
  IF annual_income > 0
  THEN RatMax(RatMul(RatDiv(R(net_worth), RatMul(R(annual_income), alpha)), R(100)), R(0))
  ELSE R(0)

Nworth(net_worth, annual_income, alpha) ==
  IF annual_income > 0
  THEN RatMin(RatMax(RatMul(RatDiv(R(net_worth), RatMul(R(annual_income), alpha)), R(100)),
                     R(0)), R(100))
  ELSE R(0)

\* DTI as the share of income the debt takes, not subtracted from 100
DTIShare(monthly_debt, monthly_income) ==
  IF monthly_income > 0
  THEN RatMin(RatMul(RatDiv(R(monthly_debt), R(monthly_income)), R(100)), R(100))
  ELSE R(0)

\* DTI with no guard on monthly_income
DTIUnguarded(monthly_debt, monthly_income) ==
  RatSub(R(100), RatMin(RatMul(RatDiv(R(monthly_debt), R(monthly_income)), R(100)), R(100)))

DTI(monthly_debt, monthly_income) ==
  IF monthly_income > 0
  THEN RatSub(R(100), RatMin(RatMul(RatDiv(R(monthly_debt), R(monthly_income)), R(100)), R(100)))
  ELSE R(0)

\* Srate with no upper clamp
SrateNoCap(monthly_savings, monthly_income) ==
  IF monthly_income > 0
  THEN RatMul(RatDiv(R(monthly_savings), R(monthly_income)), R(100))
  ELSE R(0)

Srate(monthly_savings, monthly_income) ==
  IF monthly_income > 0
  THEN RatMin(RatMul(RatDiv(R(monthly_savings), R(monthly_income)), R(100)), R(100))
  ELSE R(0)

Invest(total_investments, annual_income, beta) ==
  IF annual_income > 0
  THEN RatMin(RatMax(RatMul(RatDiv(R(total_investments), RatMul(beta, R(annual_income))),
                            R(100)), R(0)), R(100))
  ELSE R(0)

\* Emerg against a target of 12 months of expenses
EmergYear(emergency_fund, monthly_expenses) ==
  IF monthly_expenses > 0
  THEN RatMin(RatMul(RatDiv(RatDiv(R(emergency_fund), R(monthly_expenses)), R(12)), R(100)),
              R(100))
  ELSE R(0)

\* Emerg as months of expenses covered, the division by the 6-month target
\* left out
EmergMonths(emergency_fund, monthly_expenses) ==
  IF monthly_expenses > 0
  THEN RatMin(RatMul(RatDiv(R(emergency_fund), R(monthly_expenses)), R(100)), R(100))
  ELSE R(0)

Emerg(emergency_fund, monthly_expenses) ==
  IF monthly_expenses > 0
  THEN RatMin(RatMul(RatDiv(RatDiv(R(emergency_fund), R(monthly_expenses)), R(6)), R(100)),
              R(100))
  ELSE R(0)

\* a composite with the Emergency Fund weight of 0.20 mistyped as 0.25
CompositeHeavy(N, D, S, I, E) ==
  RatAdd(RatAdd(RatAdd(RatAdd(RatAdd(RatMul(Frac(20, 100), N), RatMul(Frac(15, 100), D)),
                              RatMul(Frac(15, 100), S)), RatMul(Frac(15, 100), I)),
                RatMul(Frac(25, 100), E)), R(15))

\* FHI = 0.20*Nworth + 0.15*DTI + 0.15*Srate + 0.15*Invest + 0.20*Emerg + 15
Composite(N, D, S, I, E) ==
  RatAdd(RatAdd(RatAdd(RatAdd(RatAdd(RatMul(Frac(20, 100), N), RatMul(Frac(15, 100), D)),
                              RatMul(Frac(15, 100), S)), RatMul(Frac(15, 100), I)),
                RatMul(Frac(20, 100), E)), R(15))

\* the keys of the components dict, in insertion order
ComponentOrder ==
  <<"Net Worth", "Debt-to-Income", "Savings Rate", "Investment", "Emergency Fund">>

Labels == {ComponentOrder[i] : i \in 1..Len(ComponentOrder)}

calculate_fhi(age, monthly_income, monthly_expenses, monthly_savings, monthly_debt, total_investments, net_worth, emergency_fund) ==
  LET m == TargetMultipliers(age)
      annual_income == monthly_income * 12
      N == Nworth(net_worth, annual_income, m.alpha)
      D == DTI(monthly_debt, monthly_income)
      S == Srate(monthly_savings, monthly_income)
      I == Invest(total_investments, annual_income, m.beta)
      E == Emerg(emergency_fund, monthly_expenses)
  IN  [FHI |-> Composite(N, D, S, I, E),
       components |-> [l \in Labels |->
                         CASE l = "Net Worth" -> N
                           [] l = "Debt-to-Income" -> D
                           [] l = "Savings Rate" -> S
                           [] l = "Investment" -> I
                           [] l = "Emergency Fund" -> E]]

\* a rounding to one decimal place
Round1Outcomes(q) ==
  LET h == RatMul(q, R(10))
      f == h.n \div h.d
      r == h.n - f * h.d
  IN  IF 2 * r < h.d THEN {Frac(f, 10)}
      ELSE IF 2 * r > h.d THEN {Frac(f + 1, 10)}
      ELSE {Frac(f, 10), Frac(f + 1, 10)}

\* round(FHI, 2): the nearest multiples of 0.01.  An exact tie is decided by
\* the binary value the float computation arrived at, so both neighbours are
\* outcomes.
Round2Outcomes(q) ==
  LET h == RatMul(q, R(100))
      f == h.n \div h.d
      r == h.n - f * h.d
  IN  IF 2 * r < h.d THEN {Frac(f, 100)}
      ELSE IF 2 * r > h.d THEN {Frac(f + 1, 100)}
      ELSE {Frac(f, 100), Frac(f + 1, 100)}

----------------------------------------------------------------------------
(* State *)

VARIABLES
  args,       \* the arguments of a direct call of the pure functions
  ret,        \* <<r>> once calculate_fhi returned r for args, else << >>
  val,        \* <<v>> once validate_financial_inputs returned v, else << >>
  app,        \* the program the session runs: "app.py" or "Fynstra.py"
  page,       \* the page the session shows
  session,    \* st.session_state: a function from the keys present to values
  submitted,  \* <<form>> when the button started this script run, else << >>
  computed,   \* whether this script run computed a score
  shown,      \* what this script run rendered, in order
  report,     \* <<n>> once the handler's narrative ran on the scores, else << >>
  widgets     \* the values of the Goal Tracker's input widgets that hold one

vars == <<args, ret, val, app, page, session, submitted, computed, shown, report, widgets>>

None == "None"

fnVars == <<args, ret, val, report>>
sessionVars == <<app, page, session, submitted, computed, shown, widgets>>

----------------------------------------------------------------------------
(* Direct calls of the pure functions *)

MonthlyVals == 0..MaxMonthly
StockVals == {30 * k : k \in 0..MaxStock}
EmergVals == {3 * k : k \in 0..MaxEmerg}

\* the ages at the edges of the input range and of the four brackets
BracketAges == {MinAge, 29, 30, 39, 40, 49, 50, MaxAge}

Profile(age, mi, me, ms, md, ti, nw, ef) ==
  [age |-> age, monthly_income |-> mi, monthly_expenses |-> me,
   monthly_savings |-> ms, monthly_debt |-> md, total_investments |-> ti,
   net_worth |-> nw, emergency_fund |-> ef]

\* valid profiles: every amount at the bracket-edge ages, every age with one
\* fixed set of amounts, and amounts around the validator's thresholds for an
\* income of 10
ValidProfiles ==
  { Profile(age, mi, me, ms, md, ti, nw, ef) :
      age \in BracketAges, mi \in MonthlyVals, me \in MonthlyVals,
      ms \in MonthlyVals, md \in MonthlyVals, ti \in StockVals,
      nw \in StockVals, ef \in EmergVals }
  \cup { Profile(age, 2, 1, 1, 1, 30, 30, 3) : age \in MinAge..MaxAge }
  \cup { Profile(MinAge, 10, me, ms, md, 0, 0, 0) :
           me \in 9..11, ms \in MonthlyVals, md \in {0, 1, 10, 11} }

\* profiles with positive income and expenses whose other amounts may be
\* negative: arguments the widgets never pass but the function accepts
SignedProfiles ==
  { Profile(age, mi, me, ms, md, ti, nw, ef) :
      age \in {29, 50}, mi \in 1..MaxMonthly, me \in 1..MaxMonthly,
      ms \in -1..MaxMonthly, md \in -1..MaxMonthly,
      ti \in {-30} \cup StockVals, nw \in {-30} \cup StockVals,
      ef \in {-3} \cup EmergVals }

IdleSession ==
  /\ app = None /\ page = None /\ session = << >>
  /\ submitted = << >> /\ computed = FALSE /\ shown = << >>
  /\ widgets = << >>

InitFn == /\ args \in ValidProfiles
          /\ ret = << >> /\ val = << >> /\ report = << >>
          /\ IdleSession

InitAny == /\ args \in SignedProfiles
           /\ ret = << >> /\ val = << >> /\ report = << >>
           /\ IdleSession

CallCalculateFhi ==
  /\ ret = << >> /\ val = << >>
  /\ ret' = <<calculate_fhi(args.age, args.monthly_income, args.monthly_expenses,
                            args.monthly_savings, args.monthly_debt,
                            args.total_investments, args.net_worth, args.emergency_fund)>>
  /\ UNCHANGED <<args, val, report, sessionVars>>

CallValidate ==
  /\ ret = << >> /\ val = << >>
  /\ val' = <<validate_financial_inputs(args.monthly_income, args.monthly_expenses,
                                        args.monthly_debt, args.monthly_savings)>>
  /\ UNCHANGED <<args, ret, report, sessionVars>>

NextFn == CallCalculateFhi \/ CallValidate

SpecFn == InitFn /\ [][NextFn]_vars

SpecAny == InitAny /\ [][NextFn]_vars

----------------------------------------------------------------------------
(* The calculators of app.py and Fynstra.py in a browser session *)

\* st.session_state[k] = v
Put(state, k, v) == [x \in DOMAIN state \cup {k} |-> IF x = k THEN v ELSE state[x]]

\* initialize_session_state() of app.py; Fynstra.py starts with no key
InitialSession(a) ==
  IF a = "app.py"
  THEN Put(Put(Put(<< >>, "user_data", << >>), "calculation_history", << >>),
           "chat_history", << >>)
  ELSE << >>

\* the values the eight number inputs hold when the button is pressed
FormProfiles ==
  { Profile(29, mi, me, ms, md, 30, 30, 3) :
      mi \in MonthlyVals, me \in MonthlyVals, ms \in {0, 1}, md \in MonthlyVals }

Msg(kind, text) == [kind |-> kind, text |-> text]

\* for x in list: st.<kind>(x)
ShowEach(kind, list) == [i \in 1..Len(list) |-> Msg(kind, list[i])]

TextReview == "Please review your inputs and try again."
TextMissing == "Please input your income and expenses."
TextScore == "Overall FHI Score"

\* the tier headline: the widget that renders it and its first words
\* a tier choice whose thresholds are strict
HeadlineStrict(FHI) ==
  IF RatGt(FHI, R(85)) THEN Msg("success", "Excellent!")
  ELSE IF RatGt(FHI, R(70)) THEN Msg("info", "Good!")
  ELSE IF RatGt(FHI, R(50)) THEN Msg("warning", "Fair.")
  ELSE Msg("error", "Needs Improvement.")

\* the tier of the final output: the call and the first words of its message
Headline(FHI) ==
  IF RatGe(FHI, R(85)) THEN Msg("success", "Excellent!")
  ELSE IF RatGe(FHI, R(70)) THEN Msg("info", "Good!")
  ELSE IF RatGe(FHI, R(50)) THEN Msg("warning", "Fair.")
  ELSE Msg("error", "Needs Improvement.")

ScoreLine(FHI_rounded) == [kind |-> "markdown", text |-> TextScore, value |-> FHI_rounded]

\* a handler with no check for a missing income or expense
AppBranchNoZeroCheck(errors, warnings, monthly_income, monthly_expenses) ==
  IF errors # << >> THEN "errors" ELSE "calculate"

\* a handler that lets a warning stop the calculation as an error does
AppBranchWarningsBlock(errors, warnings, monthly_income, monthly_expenses) ==
  IF errors # << >> \/ warnings # << >> THEN "errors"
  ELSE IF monthly_income = 0 \/ monthly_expenses = 0 THEN "missing"
  ELSE "calculate"

\* the if / elif / else of the app.py button handler
AppBranch(errors, warnings, monthly_income, monthly_expenses) ==
  IF errors # << >> THEN "errors"
  ELSE IF monthly_income = 0 \/ monthly_expenses = 0 THEN "missing"
  ELSE "calculate"

\* st.session_state[k] = new[k] for every key k of new
Store(state, new) ==
  [x \in DOMAIN state \cup DOMAIN new |-> IF x \in DOMAIN new THEN new[x] ELSE state[x]]

\* what one run of the app.py handler does with the form values f: the branch
\* it takes and, for each outcome of the rounding, the keys it stores and the
\* elements it draws
AppRun(f) ==
     LET v == validate_financial_inputs(f.monthly_income, f.monthly_expenses,
                                        f.monthly_debt, f.monthly_savings)
         branch == AppBranch(v.errors, v.warnings, f.monthly_income, f.monthly_expenses)
         r == calculate_fhi(f.age, f.monthly_income, f.monthly_expenses,
                            f.monthly_savings, f.monthly_debt, f.total_investments,
                            f.net_worth, f.emergency_fund)
     IN  [errors |-> v.errors, warnings |-> v.warnings, branch |-> branch, r |-> r,
          runs |->
            CASE branch = "errors" ->
                   {[stored |-> << >>,
                     shown |-> ShowEach("error", v.errors) \o <<Msg("info", TextReview)>>]}
              [] branch = "missing" ->
                   {[stored |-> << >>, shown |-> <<Msg("warning", TextMissing)>>]}
              [] branch = "calculate" ->
                   {[stored |-> [FHI |-> FHI_rounded,
                                 monthly_income |-> f.monthly_income,
                                 monthly_expenses |-> f.monthly_expenses,
                                 current_savings |-> f.monthly_savings,
                                 components |-> r.components],
                     shown |-> ShowEach("warning", v.warnings)
                                 \o <<ScoreLine(FHI_rounded), Headline(r.FHI)>>]
                      : FHI_rounded \in Round2Outcomes(r.FHI)}]

\* the runs of the app.py handler for the values the form takes
AppLocals == [f \in FormProfiles |-> AppRun(f)]

\* app.py: if st.button("Check My Financial Health")
CheckMyFinancialHealthApp ==
  /\ app = "app.py" /\ page = "calculator"
  /\ \E f \in FormProfiles :
       \E run \in AppLocals[f].runs :
         /\ submitted' = <<f>>
         /\ computed' = (AppLocals[f].branch = "calculate")
         /\ session' = Store(session, run.stored)
         /\ shown' = run.shown
  /\ UNCHANGED <<app, page, widgets, fnVars>>

\* the formulas Fynstra.py writes inline, with no guard on the divisors
FynstraScores(f) ==
  LET m == TargetMultipliers(f.age)
      annual_income == f.monthly_income * 12
      N == RatMin(RatMax(RatMul(RatDiv(R(f.net_worth), RatMul(R(annual_income), m.alpha)),
                                R(100)), R(0)), R(100))
      D == RatSub(R(100), RatMin(RatMul(RatDiv(R(f.monthly_debt), R(f.monthly_income)),
                                        R(100)), R(100)))
      S == RatMin(RatMul(RatDiv(R(f.monthly_savings), R(f.monthly_income)), R(100)), R(100))
      I == RatMin(RatMax(RatMul(RatDiv(R(f.total_investments),
                                       RatMul(m.beta, R(annual_income))), R(100)), R(0)),
                  R(100))
      E == RatMin(RatMul(RatDiv(RatDiv(R(f.emergency_fund), R(f.monthly_expenses)), R(6)),
                         R(100)), R(100))
  IN  [FHI |-> RatAdd(RatAdd(RatAdd(RatAdd(RatAdd(RatMul(Frac(20, 100), N),
                                                  RatMul(Frac(15, 100), D)),
                                           RatMul(Frac(15, 100), S)),
                                    RatMul(Frac(15, 100), I)),
                             RatMul(Frac(20, 100), E)), R(15)),
       components |-> [l \in Labels |->
                         CASE l = "Net Worth" -> N
                           [] l = "Debt-to-Income" -> D
                           [] l = "Savings Rate" -> S
                           [] l = "Investment" -> I
                           [] l = "Emergency Fund" -> E]]

FynstraFHI(f) == FynstraScores(f).FHI

\* a handler that asks only for the income
FynstraBranchIncomeOnly(monthly_income, monthly_expenses) ==
  IF monthly_income = 0 THEN "missing" ELSE "calculate"

\* the if / else of the Fynstra.py button handler
FynstraBranch(monthly_income, monthly_expenses) ==
  IF monthly_income = 0 \/ monthly_expenses = 0 THEN "missing" ELSE "calculate"

\* what one run of the Fynstra.py handler does with the form values f; the
\* formulas are evaluated in the else branch only
FynstraRun(f) ==
     LET branch == FynstraBranch(f.monthly_income, f.monthly_expenses)
     IN  [branch |-> branch,
          runs |->
            CASE branch = "missing" ->
                   {[stored |-> << >>, shown |-> <<Msg("warning", TextMissing)>>]}
              [] branch = "calculate" ->
                   {[stored |-> [FHI |-> FHI_rounded,
                                 monthly_income |-> f.monthly_income,
                                 monthly_expenses |-> f.monthly_expenses,
                                 current_savings |-> f.monthly_savings],
                     shown |-> <<ScoreLine(FHI_rounded), Headline(FynstraFHI(f))>>]
                      : FHI_rounded \in Round2Outcomes(FynstraFHI(f))}]

\* the runs of the Fynstra.py handler for the values the form takes
FynstraLocals == [f \in FormProfiles |-> FynstraRun(f)]

\* Fynstra.py: if st.button("Check My Financial Health")
CheckMyFinancialHealthFynstra ==
  /\ app = "Fynstra.py" /\ page = "calculator"
  /\ \E f \in FormProfiles :
       \E run \in FynstraLocals[f].runs :
         /\ submitted' = <<f>>
         /\ computed' = (FynstraLocals[f].branch = "calculate")
         /\ session' = Store(session, run.stored)
         /\ shown' = run.shown
  /\ UNCHANGED <<app, page, widgets, fnVars>>

TextHomepage == "Please complete the homepage first."
TextCalculateFirst == "Please calculate your FHI score first to use the Goal Tracker."

required_keys == {"FHI", "monthly_income", "monthly_expenses", "current_savings"}

\* pages/3_Goal_Tracker.py runs: the gate on required_keys, then the defaults
\* of goals and selected_goal
OpenGoalTracker ==
  /\ app = "Fynstra.py"
  /\ page' = "goal_tracker"
  /\ IF \E key \in required_keys : key \notin DOMAIN session
     THEN /\ shown' = <<Msg("warning", TextHomepage)>>
          /\ session' = session
     ELSE /\ shown' = << >>
          /\ session' =
               LET g == IF "goals" \in DOMAIN session THEN session
                        ELSE Put(session, "goals", << >>)
               IN  IF "selected_goal" \in DOMAIN g THEN g
                   ELSE Put(g, "selected_goal", None)
  /\ submitted' = << >> /\ computed' = FALSE
  /\ UNCHANGED <<app, widgets, fnVars>>

\* app.py with "Goal Tracker" chosen in the sidebar
OpenGoalTab ==
  /\ app = "app.py"
  /\ page' = "goal_tracker"
  /\ shown' = IF "FHI" \notin DOMAIN session
              THEN <<Msg("info", TextCalculateFirst)>> ELSE << >>
  /\ submitted' = << >> /\ computed' = FALSE
  /\ UNCHANGED <<app, session, widgets, fnVars>>

\* back to the calculator: the form is drawn, no button is pressed
OpenCalculator ==
  /\ page = "goal_tracker"
  /\ page' = "calculator"
  /\ shown' = << >>
  /\ submitted' = << >> /\ computed' = FALSE
  /\ UNCHANGED <<app, session, widgets, fnVars>>

Init ==
  /\ app \in {"app.py", "Fynstra.py"}
  /\ page = "calculator"
  /\ session = InitialSession(app)
  /\ submitted = << >> /\ computed = FALSE /\ shown = << >>
  /\ args = << >> /\ ret = << >> /\ val = << >> /\ report = << >>
  /\ widgets = << >>

Next ==
  \/ CheckMyFinancialHealthApp
  \/ CheckMyFinancialHealthFynstra
  \/ OpenGoalTracker
  \/ OpenGoalTab
  \/ OpenCalculator

Spec == Init /\ [][Next]_vars

----------------------------------------------------------------------------
(* The narrative the button handlers build from the scores *)

Apps == {"app.py", "Fynstra.py"}

\* component.lower() for the keys of components (app.py)
lower ==
  [l \in Labels |->
     CASE l = "Net Worth" -> "net worth"
       [] l = "Debt-to-Income" -> "debt-to-income"
       [] l = "Savings Rate" -> "savings rate"
       [] l = "Investment" -> "investment"
       [] l = "Emergency Fund" -> "emergency fund"]

\* the literal each of the five ifs of Fynstra.py appends
FynstraWeakName ==
  [l \in Labels |->
     CASE l = "Net Worth" -> "net worth"
       [] l = "Debt-to-Income" -> "debt-to-income ratio"
       [] l = "Savings Rate" -> "savings rate"
       [] l = "Investment" -> "investment levels"
       [] l = "Emergency Fund" -> "emergency fund"]

WeakName(a) == IF a = "app.py" THEN lower ELSE FynstraWeakName

\* a weak-area test that counts a score of exactly 60 as weak
IsWeakInclusive(score) == RatLe(score, R(60))

\* if score < 60
IsWeak(score) == RatLt(score, R(60))

\* weak_areas: the loop over components.items() of app.py, the five ifs of
\* Fynstra.py; both visit the sub-scores in the order of ComponentOrder
weak_areas(a, components) ==
  LET weak(l) == IsWeak(components[l])
      found == SelectSeq(ComponentOrder, weak)
  IN  [i \in 1..Len(found) |-> WeakName(a)[found[i]]]

RECURSIVE join(_, _)
\* sep.join(list)
join(sep, list) ==
  IF list = << >> THEN ""
  ELSE IF Len(list) = 1 THEN list[1]
  ELSE list[1] \o sep \o join(sep, Tail(list))

TextAddressing == " Addressing this will help strengthen your overall financial health."

\* a weak_text with a comma before the "and"
weak_text_comma(weak) ==
  IF weak = << >> THEN ""
  ELSE (IF Len(weak) = 1
        THEN " However, your " \o weak[1] \o " needs improvement."
        ELSE " However, your " \o join(", ", SubSeq(weak, 1, Len(weak) - 1))
               \o ", and " \o weak[Len(weak)] \o " need improvement.")
       \o TextAddressing

\* weak_text as the handlers assemble it from weak_areas
weak_text(weak) ==
  IF weak = << >> THEN ""
  ELSE (IF Len(weak) = 1
        THEN " However, your " \o weak[1] \o " needs improvement."
        ELSE " However, your " \o join(", ", SubSeq(weak, 1, Len(weak) - 1))
               \o " and " \o weak[Len(weak)] \o " need improvement.")
       \o TextAddressing

\* what follows the first words of each tier's message (the leading emoji is
\* left out, the apostrophes are plain)
TierSentence(first) ==
  CASE first = "Excellent!" ->
         " You're in great financial shape and well-prepared for the future."
    [] first = "Good!" ->
         " You have a solid foundation. Stay consistent and work on gaps where needed."
    [] first = "Fair." ->
         " You're on your way, but some areas need attention to build a stronger safety net."
    [] first = "Needs Improvement." ->
         " Your finances require urgent attention - prioritize stabilizing your income, debt, and savings."

\* the st.success / st.info / st.warning / st.error of the final output
FinalOutput(FHI, text) ==
  LET h == Headline(FHI)
  IN  Msg(h.kind, h.text \o TierSentence(h.text) \o text)

\* a tier choice that puts the scores 40 and 70 in the lower tier
ScoreTierInclusive(score) ==
  IF RatLe(score, R(40)) THEN 1 ELSE IF RatLe(score, R(70)) THEN 2 ELSE 3

\* ... if score < 40 else ... if score < 70 else ...
ScoreTier(score) ==
  IF RatLt(score, R(40)) THEN 1 ELSE IF RatLt(score, R(70)) THEN 2 ELSE 3

\* the three sentences of each label; em is the emphasis mark, "**" in app.py
\* and "*" in Fynstra.py (whose apostrophes and dashes are written plain here,
\* and the check mark of the last sentence is left out)
Interpretations(em, label) ==
  CASE label = "Net Worth" ->
         <<"Your " \o em \o "net worth is low" \o em \o " relative to your income.",
           "Your " \o em \o "net worth is progressing" \o em \o ", but still has room to grow.",
           "You have a " \o em \o "strong net worth" \o em \o " relative to your income.">>
    [] label = "Debt-to-Income" ->
         <<"Your " \o em \o "debt is taking a big chunk of your income" \o em \o ".",
           "You're " \o em \o "managing debt moderately well" \o em \o ", but aim to lower it further.",
           "Your " \o em \o "debt load is well-managed" \o em \o ".">>
    [] label = "Savings Rate" ->
         <<"You're " \o em \o "saving very little" \o em \o " monthly.",
           "Your " \o em \o "savings rate is okay" \o em \o ", but can be improved.",
           "You're " \o em \o "saving consistently and strongly" \o em \o ".">>
    [] label = "Investment" ->
         <<"You're " \o em \o "not investing much yet" \o em \o ".",
           "You're " \o em \o "starting to invest" \o em \o "; try to boost it.",
           "You're " \o em \o "investing well" \o em \o " and building wealth.">>
    [] label = "Emergency Fund" ->
         <<"You have " \o em \o "less than 1 month saved" \o em \o " for emergencies.",
           "You're " \o em \o "halfway to a full emergency buffer" \o em \o ".",
           "Your " \o em \o "emergency fund is solid" \o em \o ".">>

\* the fixed list of three suggestions of each label
Suggestions(label) ==
  CASE label = "Net Worth" ->
         <<"Build your assets by saving and investing consistently.",
           "Reduce liabilities such as debts and loans.",
           "Track your net worth regularly to monitor growth.">>
    [] label = "Debt-to-Income" ->
         <<"Pay down high-interest debts first.",
           "Avoid taking on new unnecessary credit obligations.",
           "Increase income to improve your ratio.">>
    [] label = "Savings Rate" ->
         <<"Automate savings transfers if possible.",
           "Set a target of saving at least 20% of income.",
           "Review expenses to increase what's saved.">>
    [] label = "Investment" ->
         <<"Start small and invest regularly.",
           "Diversify your portfolio for stability.",
           "Aim for long-term investing over short-term speculation.">>
    [] label = "Emergency Fund" ->
         <<"Build up to 3-6 months of essential expenses.",
           "Keep it liquid and easily accessible.",
           "Set a monthly auto-save amount.">>

\* an interpret_component that prefers the sub-score kept in the session
interpret_component_session(label, score) ==
  IF "components" \in DOMAIN session
  THEN <<Interpretations("**", label)[ScoreTier(session["components"][label])],
         Suggestions(label)>>
  ELSE <<Interpretations("**", label)[ScoreTier(score)], Suggestions(label)>>

\* app.py: interpret_component(label, score), for the five labels the handler
\* passes; the pair it returns
interpret_component(label, score) ==
  <<Interpretations("**", label)[ScoreTier(score)], Suggestions(label)>>

\* Fynstra.py: interpret(label, score)
interpret(label, score) ==
  <<Interpretations("*", label)[ScoreTier(score)], Suggestions(label)>>

\* the scores the handler of program a computes from the form values f
Scores(a, f) ==
  IF a = "app.py"
  THEN calculate_fhi(f.age, f.monthly_income, f.monthly_expenses, f.monthly_savings,
                     f.monthly_debt, f.total_investments, f.net_worth, f.emergency_fund)
  ELSE FynstraScores(f)

\* what the handler of program a builds from the scores r
Narrative(a, r) ==
  LET weak == weak_areas(a, r.components)
  IN  [weak_areas |-> weak,
       weak_text |-> weak_text(weak),
       output |-> FinalOutput(r.FHI, weak_text(weak)),
       breakdown |-> [l \in Labels |->
                        IF a = "app.py" THEN interpret_component(l, r.components[l])
                        ELSE interpret(l, r.components[l])]]

\* the sub-scores at the edges of the weak-area test and of the interpretation
\* tiers, and the two ends of the range
ScoreVals == {0, 39, 40, 59, 60, 69, 70, 100}

\* a profile of age 29 with income and expenses 100 for every tuple of
\* sub-scores: its Net Worth score is N, its Debt-to-Income score D, and so on
ScoreProfiles ==
  { Profile(29, 100, 100, S, 100 - D, 24 * I, 30 * N, 6 * E) :
      N \in ScoreVals, D \in ScoreVals, S \in ScoreVals, I \in ScoreVals, E \in ScoreVals }

InitNarr ==
  /\ app \in Apps
  /\ args \in ScoreProfiles
  /\ ret = << >> /\ val = << >> /\ report = << >>
  /\ page = "calculator" /\ session = << >>
  /\ submitted = << >> /\ computed = FALSE /\ shown = << >>
  /\ widgets = << >>

\* the handler's else branch up to FHI_rounded
ComputeScores ==
  /\ app \in Apps
  /\ ret = << >> /\ val = << >>
  /\ ret' = <<Scores(app, args)>>
  /\ UNCHANGED <<args, val, report, sessionVars>>

\* the handler's else branch from "Identify weak areas" to the breakdown
Narrate ==
  /\ app \in Apps
  /\ ret # << >> /\ report = << >>
  /\ report' = <<Narrative(app, ret[1])>>
  /\ UNCHANGED <<args, ret, val, sessionVars>>

NextNarr == ComputeScores \/ Narrate

SpecNarr == InitNarr /\ [][NextNarr]_vars

----------------------------------------------------------------------------
(* The Goal Tracker: pages/3_Goal_Tracker.py and the tab of app.py *)

\* Amounts are in the unit of the monthly amounts, taken to be 1000 pesos, so
\* that the minimum and the step of the target-amount input are 1.  A date is
\* the number of days from today to it; the runs modelled fall on one day.

\* the target amounts the input takes: 1 .. MaxAmount
MaxAmount == 3
\* the months to the goal the tab of app.py takes: 1 .. MaxGoalMonths
MaxGoalMonths == 3

\* min_value=1000.0 of the target-amount input, its value when first drawn
MinGoalAmount == 1

\* date.today()
today == 0

AmountVals == MinGoalAmount..MaxAmount

\* the target dates the date input takes (min_value=date.today()): today and
\* the days around the second month
TargetDays == {today, 59, 60, 90}

\* the target dates a goal saved on an earlier day can hold: yesterday too
SavedDays == {-1} \cup TargetDays

\* delta.days // 30 with no floor of 1
GoalMonthsNoFloor(days) == days \div 30

\* months = max(delta.days // 30, 1), for delta.days = days
GoalMonths(days) == IF days \div 30 > 1 THEN days \div 30 ELSE 1

\* a required saving computed from the signed difference
RequiredMonthlySavingSigned(goal_amount, current_savings, months) ==
  RatDiv(R(goal_amount - current_savings), R(months))

\* remaining_amount = max(goal_amount - current_savings, 0)
\* required_monthly_saving = remaining_amount / months
RequiredMonthlySaving(goal_amount, current_savings, months) ==
  RatDiv(RatMax(R(goal_amount - current_savings), R(0)), R(months))

\* available_to_save = max(monthly_income - monthly_expenses, 0)
AvailableToSave(monthly_income, monthly_expenses) ==
  RatMax(R(monthly_income - monthly_expenses), R(0))

\* an on-track test that wants the FHI strictly above the minimum
OnTrackAbove(required_monthly_saving, available_to_save, FHI, min_fhi) ==
  RatLe(required_monthly_saving, available_to_save) /\ RatGt(FHI, min_fhi)

\* required_monthly_saving <= available_to_save and FHI >= min_fhi
OnTrack(required_monthly_saving, available_to_save, FHI, min_fhi) ==
  RatLe(required_monthly_saving, available_to_save) /\ RatGe(FHI, min_fhi)

\* the place of the goal goal_id in the dict of goals, kept in insertion order
GoalIndex(goals, goal_id) == CHOOSE i \in 1..Len(goals) : goals[i].id = goal_id

\* one card of the list: the on-track status computed from the stored goal
GoalCard(state, goal) ==
  LET FHI == state["FHI"]
      min_fhi == IF goal.use_recommended_fhi THEN FHI ELSE R(50)
      months == GoalMonths(goal.target_date - today)
      required == RequiredMonthlySaving(goal.goal_amount, state["current_savings"], months)
      available == AvailableToSave(state["monthly_income"], state["monthly_expenses"])
  IN  [kind |-> "card", goal_id |-> goal.id,
       goal_amount |-> goal.goal_amount, target_date |-> goal.target_date,
       use_recommended_fhi |-> goal.use_recommended_fhi,
       min_fhi |-> min_fhi, months |-> months,
       required_monthly_saving |-> required, available_to_save |-> available,
       on_track |-> OnTrack(required, available, FHI, min_fhi)]

TextImproveFhi == "- Improve your FHI by reducing debt or increasing savings."
TextReduceExpenses == "- Reduce non-essential expenses."
TextStartFund == "- Start an emergency fund."
TextExtendDeadline == "- Extend your goal deadline."
TextIncreaseIncome == "- Increase your income (e.g., side hustles)."

\* suggestions that count expenses of exactly half the income as high
GoalSuggestionsHalf(FHI, min_fhi, monthly_income, monthly_expenses, current_savings) ==
  (IF RatLt(FHI, min_fhi) THEN <<TextImproveFhi>> ELSE << >>)
  \o (IF 2 * monthly_expenses >= monthly_income THEN <<TextReduceExpenses>> ELSE << >>)
  \o (IF current_savings = 0 THEN <<TextStartFund>> ELSE << >>)
  \o <<TextExtendDeadline, TextIncreaseIncome>>

\* the suggestions of the else branch of the status check
GoalSuggestions(FHI, min_fhi, monthly_income, monthly_expenses, current_savings) ==
  (IF RatLt(FHI, min_fhi) THEN <<TextImproveFhi>> ELSE << >>)
  \o (IF 2 * monthly_expenses > monthly_income THEN <<TextReduceExpenses>> ELSE << >>)
  \o (IF current_savings = 0 THEN <<TextStartFund>> ELSE << >>)
  \o <<TextExtendDeadline, TextIncreaseIncome>>

\* the value a widget returns: the one it holds, or its default when it is
\* drawn for the first time
WidgetValue(w, key, default) == IF key \in DOMAIN w THEN w[key] ELSE default

\* int(FHI) for FHI >= 0
IntPart(q) == q.n \div q.d

\* the values the minimum-FHI slider is moved to: its ends, its default
\* int(FHI) and the next integer
SliderVals(FHI) == {0, IntPart(FHI), IntPart(FHI) + 1, 100}

\* the detail of the selected goal: the inputs are read, the goal is
\* overwritten with them, the status check is drawn
GoalDetail(state, w, goal) ==
  LET goal_amount == WidgetValue(w, "goal_amount_input", MinGoalAmount)
      target_date == WidgetValue(w, "target_date_input", today)
      use_recommended_fhi ==
        WidgetValue(w, "use_recommended_fhi_input", goal.use_recommended_fhi)
      FHI == state["FHI"]
      slider == WidgetValue(w, "min_fhi_slider", IntPart(FHI))
      min_fhi == IF use_recommended_fhi THEN FHI ELSE R(slider)
      monthly_income == state["monthly_income"]
      monthly_expenses == state["monthly_expenses"]
      current_savings == state["current_savings"]
      months == GoalMonths(target_date - today)
      required == RequiredMonthlySaving(goal_amount, current_savings, months)
      available == AvailableToSave(monthly_income, monthly_expenses)
      on_track == OnTrack(required, available, FHI, min_fhi)
      drawn == [goal_amount_input |-> goal_amount, target_date_input |-> target_date,
                use_recommended_fhi_input |-> use_recommended_fhi]
  IN  [goal |-> [goal EXCEPT !.goal_amount = goal_amount, !.target_date = target_date,
                             !.use_recommended_fhi = use_recommended_fhi],
       widgets |-> IF use_recommended_fhi THEN drawn
                   ELSE Put(drawn, "min_fhi_slider", slider),
       status |-> [kind |-> "status", goal_id |-> goal.id,
                   call |-> IF on_track THEN "success" ELSE "error",
                   goal_amount |-> goal_amount, target_date |-> target_date,
                   use_recommended_fhi |-> use_recommended_fhi,
                   min_fhi |-> min_fhi, months |-> months,
                   required_monthly_saving |-> required, available_to_save |-> available,
                   on_track |-> on_track,
                   suggestions |->
                     IF on_track THEN << >>
                     ELSE GoalSuggestions(FHI, min_fhi, monthly_income, monthly_expenses,
                                          current_savings)]]

\* one run of pages/3_Goal_Tracker.py past the gate, with no button pressed:
\* the cards of all goals, then the detail of the selected goal.  A widget
\* that the run does not draw loses its value.
RunGoalTracker(state, w) ==
  LET goals == state["goals"]
      cards == [i \in 1..Len(goals) |-> GoalCard(state, goals[i])]
      selected_goal == state["selected_goal"]
  IN  IF selected_goal = None
      THEN [session |-> state, widgets |-> << >>, shown |-> cards]
      ELSE LET i == GoalIndex(goals, selected_goal)
               d == GoalDetail(state, w, goals[i])
           IN  [session |-> Put(state, "goals", [goals EXCEPT ![i] = d.goal]),
                widgets |-> d.widgets,
                shown |-> Append(cards, d.status)]

\* the Goal Tracker tab of app.py past its gate
GoalTab(state, goal_amount, goal_months) ==
  LET current_savings == state["current_savings"]
      monthly_savings == state["current_savings"]
      needed_monthly == IF goal_amount > current_savings
                        THEN RatDiv(R(goal_amount - current_savings), R(goal_months))
                        ELSE R(0)
  IN  IF goal_amount > 0 /\ goal_months > 0
      THEN <<[kind |-> "tab", goal_amount |-> goal_amount, goal_months |-> goal_months,
              needed_monthly |-> needed_monthly,
              progress |-> RatMul(RatDiv(R(current_savings), R(goal_amount)), R(100)),
              call |-> IF RatGe(R(monthly_savings), needed_monthly)
                       THEN "success" ELSE "warning",
              on_track |-> RatGe(R(monthly_savings), needed_monthly)]>>
      ELSE << >>

\* the goals a session holds from an earlier visit of the page: one goal,
\* saved with any amount, any date and either setting
SavedGoals ==
  { [id |-> "goal-1", name |-> "New Goal 1", goal_amount |-> a, target_date |-> d,
     use_recommended_fhi |-> u, emoji |-> "target"] :
      a \in AmountVals, d \in SavedDays, u \in BOOLEAN }

\* the form values behind the sessions of the Goal Tracker: savings from
\* nothing to more than the smallest goal, no debt or the largest debt the
\* form takes
GoalForms ==
  { Profile(29, mi, me, ms, md, 30, 30, 3) :
      mi \in 1..MaxMonthly, me \in 1..MaxMonthly, ms \in MonthlyVals,
      md \in {0, MaxMonthly} }

\* the sessions in which the calculator of program a has stored a score
ScoredSessions(a) ==
  UNION { { Store(InitialSession(a), run.stored) :
              run \in IF a = "app.py" THEN AppRun(f).runs ELSE FynstraRun(f).runs } :
            f \in { g \in GoalForms :
                      "calculate" = IF a = "app.py" THEN AppRun(g).branch
                                    ELSE FynstraRun(g).branch } }

\* the Goal Tracker as it is first drawn in a session with a score: the tab of
\* app.py with its inputs at their defaults, the page of Fynstra.py with the
\* card of the saved goal and no goal selected
InitGoal ==
  /\ app \in Apps
  /\ page = "goal_tracker"
  /\ \E state \in ScoredSessions(app) :
       IF app = "app.py"
       THEN /\ session = state
            /\ widgets = [savings_goal |-> 0, time_to_goal |-> 1]
            /\ shown = GoalTab(state, 0, 1)
       ELSE \E goal \in SavedGoals :
              \E run \in {RunGoalTracker(Put(Put(state, "goals", <<goal>>),
                                             "selected_goal", None), << >>)} :
                /\ session = run.session
                /\ widgets = run.widgets
                /\ shown = run.shown
  /\ submitted = << >> /\ computed = FALSE
  /\ args = << >> /\ ret = << >> /\ val = << >> /\ report = << >>

OnGoalPage == app = "Fynstra.py" /\ page = "goal_tracker" /\ "goals" \in DOMAIN session

GoalSelected == OnGoalPage /\ session["selected_goal"] # None

\* the rerun after an input of the detail changed to v
ChangeWidget(key, v) ==
  /\ \E run \in {RunGoalTracker(session, Put(widgets, key, v))} :
       /\ session' = run.session
       /\ widgets' = run.widgets
       /\ shown' = run.shown
  /\ UNCHANGED <<app, page, submitted, computed, fnVars>>

\* the View button of a card: selected_goal is set and the script reruns.
\* Whether the inputs of a detail that was open keep their values over the
\* interrupted run depends on the Streamlit version, so both happen.
ViewGoal ==
  /\ OnGoalPage
  /\ \E i \in 1..Len(session["goals"]) :
       \E keep \in BOOLEAN :
         \E run \in {RunGoalTracker(Put(session, "selected_goal", session["goals"][i].id),
                                    IF keep THEN widgets ELSE << >>)} :
           /\ session' = run.session
           /\ widgets' = run.widgets
           /\ shown' = run.shown
  /\ UNCHANGED <<app, page, submitted, computed, fnVars>>

\* the target-amount input is changed
SetGoalAmount ==
  /\ GoalSelected
  /\ \E v \in AmountVals \ {widgets["goal_amount_input"]} :
       ChangeWidget("goal_amount_input", v)

\* the target-date input is changed
SetTargetDate ==
  /\ GoalSelected
  /\ \E v \in TargetDays \ {widgets["target_date_input"]} :
       ChangeWidget("target_date_input", v)

\* the checkbox "Use your current FHI" is ticked or cleared
SetUseRecommendedFhi ==
  /\ GoalSelected
  /\ ChangeWidget("use_recommended_fhi_input", ~widgets["use_recommended_fhi_input"])

\* the minimum-FHI slider is moved
SetMinFhi ==
  /\ GoalSelected
  /\ "min_fhi_slider" \in DOMAIN widgets
  /\ \E v \in SliderVals(session["FHI"]) \ {widgets["min_fhi_slider"]} :
       ChangeWidget("min_fhi_slider", v)

\* the Save Goal button: the run draws the page as before, writes the name,
\* clears selected_goal and reruns; the rerun draws the cards alone
SaveGoal ==
  /\ GoalSelected
  /\ \E first \in {RunGoalTracker(session, widgets)} :
       LET goals == first.session["goals"]
           i == GoalIndex(goals, first.session["selected_goal"])
           named == Put(first.session, "goals",
                        [goals EXCEPT ![i].name = goals[i].name])
       IN  \E run \in {RunGoalTracker(Put(named, "selected_goal", None), first.widgets)} :
             /\ session' = run.session
             /\ widgets' = run.widgets
             /\ shown' = run.shown
  /\ UNCHANGED <<app, page, submitted, computed, fnVars>>

\* app.py: the two inputs of the Goal Tracker tab are set and the script reruns
EnterSavingsGoal ==
  /\ app = "app.py" /\ page = "goal_tracker" /\ "FHI" \in DOMAIN session
  /\ \E goal_amount \in 0..MaxAmount, goal_months \in 1..MaxGoalMonths :
       /\ widgets' = [savings_goal |-> goal_amount, time_to_goal |-> goal_months]
       /\ shown' = GoalTab(session, goal_amount, goal_months)
  /\ UNCHANGED <<app, page, session, submitted, computed, fnVars>>

NextGoal ==
  \/ ViewGoal
  \/ SetGoalAmount
  \/ SetTargetDate
  \/ SetUseRecommendedFhi
  \/ SetMinFhi
  \/ SaveGoal
  \/ EnterSavingsGoal

SpecGoal == InitGoal /\ [][NextGoal]_vars

----------------------------------------------------------------------------
(* The Goal Tracker page from its first visit: goals are added, viewed, saved *)

\* how many goals a behaviour adds
MaxGoals == 2

\* the values of str(uuid.uuid4()) a behaviour draws from
GoalIds == { "goal-" \o ToString(k) : k \in 1..MaxGoals }

\* the keys of the goals dict
GoalKeys(goals) == { goals[i].id : i \in 1..Len(goals) }

\* the goal the Add New Goal button stores under goal_id
NewGoal(goals, goal_id) ==
  [id |-> goal_id, name |-> "New Goal " \o ToString(Len(goals) + 1),
   goal_amount |-> MinGoalAmount, target_date |-> today,
   use_recommended_fhi |-> TRUE, emoji |-> "target"]

\* the page is opened for the first time in a session with a score: goals is
\* the empty dict, no goal is selected, nothing is drawn under "Your Goals".
\* The calculator of Fynstra.py left one of two sessions: one whose capacity
\* of 1 covers a goal of 1 or 2 with the savings of 1, one with no capacity
\* and no savings.
InitGoals ==
  /\ app = "Fynstra.py"
  /\ page = "goal_tracker"
  /\ \E f \in {Profile(29, 2, 1, 1, 0, 30, 30, 3), Profile(29, 1, 1, 0, 0, 30, 30, 3)} :
     \E state \in { Store(InitialSession(app), stored.stored) :
                      stored \in FynstraRun(f).runs } :
       \E run \in {RunGoalTracker(Put(Put(state, "goals", << >>), "selected_goal", None),
                                  << >>)} :
         /\ session = run.session
         /\ widgets = run.widgets
         /\ shown = run.shown
  /\ submitted = << >> /\ computed = FALSE
  /\ args = << >> /\ ret = << >> /\ val = << >> /\ report = << >>

\* an Add New Goal that stores the goal and leaves the selection as it is
AddNewGoalUnselected ==
  /\ OnGoalPage
  /\ Len(session["goals"]) < MaxGoals
  /\ \E goal_id \in GoalIds \ GoalKeys(session["goals"]) :
       LET goals == session["goals"]
           added == Put(session, "goals", Append(goals, NewGoal(goals, goal_id)))
       IN  \E run \in {RunGoalTracker(added, widgets)} :
             /\ session' = run.session
             /\ widgets' = run.widgets
             /\ shown' = run.shown
  /\ UNCHANGED <<app, page, submitted, computed, fnVars>>

\* the Add New Goal button: a goal is stored under a fresh uuid and selected;
\* the same run goes on to draw the cards and the detail of the new goal,
\* whose inputs keep the values they held if a detail was open
AddNewGoal ==
  /\ OnGoalPage
  /\ Len(session["goals"]) < MaxGoals
  /\ \E goal_id \in GoalIds \ GoalKeys(session["goals"]) :
       LET goals == session["goals"]
           added == Put(Put(session, "goals", Append(goals, NewGoal(goals, goal_id))),
                        "selected_goal", goal_id)
       IN  \E run \in {RunGoalTracker(added, widgets)} :
             /\ session' = run.session
             /\ widgets' = run.widgets
             /\ shown' = run.shown
  /\ UNCHANGED <<app, page, submitted, computed, fnVars>>

SpecGoals == InitGoals /\ [][AddNewGoal \/ ViewGoal \/ SetGoalAmount \/ SaveGoal]_vars

----------------------------------------------------------------------------
(* The button handlers on a worked profile and at the edges of the tiers *)

\* the profiles typed into the form: the worked profile in every age
\* bracket, with a debt above the income and with a full emergency fund; and
\* profiles of age 29 with income 10000 whose FHI is 50, 70 or 85 plus
\* 0.15 * (DTI + Srate) less 0.2 * (100 - Nworth): at, just under and above
\* the three thresholds of the final output
CaseProfiles ==
  { Profile(age, 50000, 30000, 5000, md, 20000, 100000, ef) :
      age \in {25, 35, 45, 55}, md \in {5000, 55000}, ef \in {90000, 180000} }
    \cup
  { Profile(29, 10000, 10000, ms, md, 240000, nw, ef) :
      ms \in {0, 9996, 9997, 10000}, md \in {0, 10000},
      nw \in {299900, 299990, 300000}, ef \in {0, 60000} }

InitCase ==
  /\ app \in Apps
  /\ page = "calculator"
  /\ session = InitialSession(app)
  /\ args \in CaseProfiles
  /\ submitted = << >> /\ computed = FALSE /\ shown = << >>
  /\ ret = << >> /\ val = << >> /\ report = << >>
  /\ widgets = << >>

\* the handler of program a on the form values f
HandlerRun(a, f) == IF a = "app.py" THEN AppRun(f) ELSE FynstraRun(f)

\* if st.button("Check My Financial Health") with the form holding args: the
\* validation (app.py), the scores, the rounding, the stores, the score line,
\* the weak areas and the final output
CheckProfile ==
  /\ page = "calculator"
  /\ \E h \in {HandlerRun(app, args)} :
       \E run \in h.runs :
         /\ submitted' = <<args>>
         /\ computed' = (h.branch = "calculate")
         /\ session' = Store(session, run.stored)
         /\ shown' = run.shown
         /\ val' = IF app = "app.py"
                   THEN <<[errors |-> h.errors, warnings |-> h.warnings]>> ELSE << >>
         /\ ret' = IF h.branch = "calculate" THEN <<Scores(app, args)>> ELSE << >>
         /\ report' = IF h.branch = "calculate"
                      THEN <<Narrative(app, Scores(app, args))>> ELSE << >>
  /\ UNCHANGED <<app, page, widgets, args>>

\* the user types another profile into the form: the script reruns with no
\* button pressed
EditProfile ==
  /\ page = "calculator"
  /\ args' \in CaseProfiles \ {args}
  /\ submitted' = << >> /\ computed' = FALSE /\ shown' = << >>
  /\ ret' = << >> /\ val' = << >> /\ report' = << >>
  /\ UNCHANGED <<app, page, session, widgets>>

SpecCase == InitCase /\ [][CheckProfile \/ EditProfile]_vars

----------------------------------------------------------------------------
(* The three functions of app.py called again and again during a session *)

\* how many calls of one function a behaviour follows
MaxCalls == 2

PureProfiles == {Profile(29, 1, 1, 0, 2, 30, 30, 3), Profile(29, 2, 1, 1, 0, 30, 30, 3)}

\* a function of app.py and the arguments of its call
PureCalls ==
  { [fn |-> fn, in |-> p] :
      fn \in {"validate_financial_inputs", "calculate_fhi"}, p \in PureProfiles }
    \cup
  { [fn |-> "interpret_component", in |-> [label |-> l, score |-> s]] :
      l \in {"Savings Rate", "Emergency Fund"}, s \in {R(39), R(70)} }

\* the value the call c returns
Apply(c) ==
  CASE c.fn = "validate_financial_inputs" ->
         validate_financial_inputs(c.in.monthly_income, c.in.monthly_expenses,
                                   c.in.monthly_debt, c.in.monthly_savings)
    [] c.fn = "calculate_fhi" ->
         calculate_fhi(c.in.age, c.in.monthly_income, c.in.monthly_expenses,
                       c.in.monthly_savings, c.in.monthly_debt, c.in.total_investments,
                       c.in.net_worth, c.in.emergency_fund)
    [] c.fn = "interpret_component" -> interpret_component(c.in.label, c.in.score)

\* a session of either program; args is the call that will be repeated, ret
\* the values its calls returned so far, val the keys st.session_state held
\* when each call was made
InitPure ==
  /\ app \in Apps
  /\ page = "calculator"
  /\ session = InitialSession(app)
  /\ submitted = << >> /\ computed = FALSE /\ shown = << >>
  /\ args \in PureCalls
  /\ ret = << >> /\ val = << >> /\ report = << >>
  /\ widgets = << >>

\* the function is called with the arguments args in the current session
CallPure ==
  /\ Len(ret) < MaxCalls
  /\ ret' = Append(ret, Apply(args))
  /\ val' = Append(val, DOMAIN session)
  /\ UNCHANGED <<args, report, sessionVars>>

\* the button handler of either program on a form of PureProfiles
CheckHealthPure ==
  /\ page = "calculator"
  /\ \E f \in PureProfiles :
       \E h \in {HandlerRun(app, f)} :
         \E run \in h.runs :
           /\ submitted' = <<f>>
           /\ computed' = (h.branch = "calculate")
           /\ session' = Store(session, run.stored)
           /\ shown' = run.shown
  /\ UNCHANGED <<app, page, widgets, fnVars>>

SpecPure ==
  InitPure /\ [][CallPure \/ CheckHealthPure \/ OpenGoalTracker \/ OpenGoalTab
                   \/ OpenCalculator]_vars

----------------------------------------------------------------------------
(* pages/2_Budget_Tracker.py, the script up to the bank-integration note *)

\* how many entries a behaviour keeps at once
MaxEntries == 3

\* the values the form holds when it is submitted
FormEntries ==
  { [date |-> today, type |-> t, category |-> "Food", amount |-> a] :
      t \in {"Income", "Expense"}, a \in {1, 2} }

\* the page is opened in a new session: budget_entries = [] and
\* edit_index = None (held as << >>, an index i as <<i>>); val is the entry
\* the user pressed Edit on, while an edit is pending
InitBudget ==
  /\ app = "Fynstra.py"
  /\ page = "budget_tracker"
  /\ session = [budget_entries |-> << >>, edit_index |-> << >>]
  /\ submitted = << >> /\ computed = FALSE /\ shown = << >>
  /\ args = << >> /\ ret = << >> /\ val = << >> /\ report = << >>
  /\ widgets = << >>

\* list.pop(i)
Pop(list, i) == [k \in 1..(Len(list) - 1) |-> IF k <= i THEN list[k] ELSE list[k + 1]]

\* the form is submitted with the entry new_entry: it replaces the entry at
\* edit_index when one is set (an index out of range raises IndexError), else
\* it is appended
SubmitEntry ==
  /\ page = "budget_tracker"
  /\ \E new_entry \in FormEntries :
       LET entries == session["budget_entries"]
           edit_index == session["edit_index"]
       IN  /\ submitted' = <<new_entry>>
           /\ IF edit_index # << >>
              THEN IF edit_index[1] < Len(entries)
                   THEN /\ session' = [budget_entries |-> [entries EXCEPT ![edit_index[1] + 1] = new_entry],
                                       edit_index |-> << >>]
                        /\ shown' = <<Msg("success", "Entry updated!")>>
                        /\ val' = << >>
                   ELSE /\ session' = session
                        /\ shown' = <<Msg("exception", "IndexError")>>
                        /\ val' = val
              ELSE /\ Len(entries) < MaxEntries
                   /\ session' = [session EXCEPT !["budget_entries"] = Append(entries, new_entry)]
                   /\ shown' = <<Msg("success", "Entry added!")>>
                   /\ val' = val
  /\ UNCHANGED <<app, page, computed, widgets, args, ret, report>>

\* the Edit button of the transaction with the index label i, then the rerun
EditEntry ==
  /\ page = "budget_tracker"
  /\ \E i \in 0..(Len(session["budget_entries"]) - 1) :
       /\ session' = [session EXCEPT !["edit_index"] = <<i>>]
       /\ val' = <<session["budget_entries"][i + 1]>>
  /\ submitted' = << >> /\ shown' = << >>
  /\ UNCHANGED <<app, page, computed, widgets, args, ret, report>>

\* the Delete button of the transaction with the index label i, then the rerun
DeleteEntry ==
  /\ page = "budget_tracker"
  /\ \E i \in 0..(Len(session["budget_entries"]) - 1) :
       session' = [session EXCEPT !["budget_entries"] = Pop(session["budget_entries"], i)]
  /\ submitted' = << >> /\ shown' = << >>
  /\ UNCHANGED <<app, page, computed, widgets, fnVars>>

SpecBudget == InitBudget /\ [][SubmitEntry \/ EditEntry \/ DeleteEntry]_vars

----------------------------------------------------------------------------
(* get_fallback_response and the FYNyx chat, app.py and pages/4_FYNyx.py *)

\* A str is the sequence of its characters.
\* k in s
Contains(s, k) == \E i \in 1..(Len(s) - Len(k) + 1) : SubSeq(s, i, i + Len(k) - 1) = k

\* the lower-case letter of an upper-case letter, any other character itself
LowerChar(c) ==
  LET UpperCase ==
        <<"A", "B", "C", "D", "E", "F", "G", "H", "I", "J", "K", "L",
          "M", "N", "O", "P", "Q", "R", "S", "T", "U", "V", "W", "X", "Y",
          "Z">>
      LowerCase ==
        <<"a", "b", "c", "d", "e", "f", "g", "h", "i", "j", "k", "l",
          "m", "n", "o", "p", "q", "r", "s", "t", "u", "v", "w", "x", "y",
          "z">>
  IN  IF \E i \in 1..Len(UpperCase) : UpperCase[i] = c
      THEN LowerCase[CHOOSE i \in 1..Len(UpperCase) : UpperCase[i] = c]
      ELSE c

\* s.lower()
str_lower(s) == [i \in 1..Len(s) |-> LowerChar(s[i])]

\* the keywords the function looks for
Keyword ==
  [money |-> <<"m", "o", "n", "e", "y">>,
   save |-> <<"s", "a", "v", "e">>,
   invest |-> <<"i", "n", "v", "e", "s", "t">>,
   debt |-> <<"d", "e", "b", "t">>,
   financial |-> <<"f", "i", "n", "a", "n", "c", "i", "a", "l">>,
   emergency |-> <<"e", "m", "e", "r", "g", "e", "n", "c", "y">>,
   retirement |-> <<"r", "e", "t", "i", "r", "e", "m", "e", "n", "t">>,
   income |-> <<"i", "n", "c", "o", "m", "e">>,
   expense |-> <<"e", "x", "p", "e", "n", "s", "e">>,
   fund |-> <<"f", "u", "n", "d">>,
   bank |-> <<"b", "a", "n", "k">>,
   loan |-> <<"l", "o", "a", "n">>,
   investment |-> <<"i", "n", "v", "e", "s", "t", "m", "e", "n", "t">>,
   savings |-> <<"s", "a", "v", "i", "n", "g", "s">>]

\* the keywords of the gate, in the order the list has them
FinancialKeywords ==
  <<Keyword.money, Keyword.save, Keyword.invest, Keyword.debt, Keyword.financial, Keyword.emergency, Keyword.retirement,
    Keyword.income, Keyword.expense, Keyword.fund, Keyword.bank, Keyword.loan>>

\* any(keyword in question_lower for keyword in [...])
IsFinancial(question_lower) ==
  \E i \in 1..Len(FinancialKeywords) : Contains(question_lower, FinancialKeywords[i])

\* a response of the fallback: the branch that returned, the first words of
\* its text and the values the text interpolates
Reply(branch, text, values) == [branch |-> branch, text |-> text, values |-> values]

\* get_fallback_response(user_question, fhi_context); fhi_context holds FHI,
\* income, expenses and savings
get_fallback_response(user_question, fhi_context) ==
  LET question_lower == str_lower(user_question)
      fhi_score == fhi_context.FHI
      income == fhi_context.income
      expenses == fhi_context.expenses
  IN  IF ~IsFinancial(question_lower)
      THEN Reply("redirect", "I'm FYNyx, your financial advisor!", << >>)
      ELSE IF Contains(question_lower, Keyword.emergency)
      THEN Reply("emergency", "Build an emergency fund of",
                 <<R(expenses * 6), RatDiv(R(expenses * 6), R(12))>>)
      ELSE IF Contains(question_lower, Keyword.debt)
      THEN IF RatLt(fhi_score, R(50))
           THEN Reply("debt", "Focus on high-interest debt first", << >>)
           ELSE Reply("debt", "You're managing debt well!", << >>)
      ELSE IF Contains(question_lower, Keyword.invest) \/ Contains(question_lower, Keyword.investment)
      THEN IF income < 30000
           THEN Reply("invest", "Start small with", << >>)
           ELSE Reply("invest", "Consider diversifying:", << >>)
      ELSE IF Contains(question_lower, Keyword.save) \/ Contains(question_lower, Keyword.savings)
      THEN LET savings_rate == IF income > 0
                               THEN RatMul(RatDiv(R(fhi_context.savings), R(income)), R(100))
                               ELSE R(0)
                target == RatMul(Frac(20, 100), R(income))
           IN  IF RatLt(savings_rate, R(20))
               THEN Reply("save", "Your savings rate is",
                          <<savings_rate, target, RatSub(target, R(fhi_context.savings))>>)
               ELSE Reply("save", "Excellent", <<savings_rate>>)
      ELSE IF Contains(question_lower, Keyword.retirement)
      THEN Reply("retirement", "Maximize SSS contributions first", << >>)
      ELSE IF RatLt(fhi_score, R(50))
      THEN Reply("general", "Focus on basics:", << >>)
      ELSE IF RatLt(fhi_score, R(70))
      THEN Reply("general", "You're on the right track!", << >>)
      ELSE Reply("general", "Great financial health!", << >>)

\* the five sample questions of the chat page
sample_questions ==
  <<<<"H", "o", "w", " ", "c", "a", "n", " ", "I", " ", "i", "m", "p", "r",
      "o", "v", "e", " ", "m", "y", " ", "e", "m", "e", "r", "g", "e", "n",
      "c", "y", " ", "f", "u", "n", "d", "?">>,
    <<"W", "h", "a", "t", " ", "i", "n", "v", "e", "s", "t", "m", "e", "n",
      "t", "s", " ", "a", "r", "e", " ", "g", "o", "o", "d", " ", "f", "o",
      "r", " ", "b", "e", "g", "i", "n", "n", "e", "r", "s", " ", "i", "n",
      " ", "t", "h", "e", " ", "P", "h", "i", "l", "i", "p", "p", "i", "n",
      "e", "s", "?">>,
    <<"H", "o", "w", " ", "s", "h", "o", "u", "l", "d", " ", "I", " ", "p",
      "a", "y", " ", "o", "f", "f", " ", "m", "y", " ", "d", "e", "b", "t",
      " ", "f", "a", "s", "t", "e", "r", "?">>,
    <<"W", "h", "a", "t", "'", "s", " ", "a", " ", "g", "o", "o", "d", " ",
      "s", "a", "v", "i", "n", "g", "s", " ", "r", "a", "t", "e", " ", "f",
      "o", "r", " ", "s", "o", "m", "e", "o", "n", "e", " ", "m", "y", " ",
      "a", "g", "e", "?">>,
    <<"S", "h", "o", "u", "l", "d", " ", "I", " ", "i", "n", "v", "e", "s",
      "t", " ", "i", "n", " ", "s", "t", "o", "c", "k", "s", " ", "o", "r",
      " ", "s", "a", "v", "e", " ", "m", "o", "r", "e", " ", "f", "i", "r",
      "s", "t", "?">>>>

\* the questions of the three quick-action buttons
quick_questions ==
  <<<<"G", "i", "v", "e", " ", "m", "e", " ", "m", "o", "r", "e", " ", "s",
      "p", "e", "c", "i", "f", "i", "c", " ", "t", "i", "p", "s", " ", "t",
      "o", " ", "i", "n", "c", "r", "e", "a", "s", "e", " ", "m", "y", " ",
      "s", "a", "v", "i", "n", "g", "s", " ", "r", "a", "t", "e">>,
    <<"W", "h", "a", "t", " ", "s", "p", "e", "c", "i", "f", "i", "c", " ",
      "i", "n", "v", "e", "s", "t", "m", "e", "n", "t", "s", " ", "s", "h",
      "o", "u", "l", "d", " ", "I", " ", "c", "o", "n", "s", "i", "d", "e",
      "r", " ", "f", "o", "r", " ", "m", "y", " ", "s", "i", "t", "u", "a",
      "t", "i", "o", "n", "?">>,
    <<"W", "h", "a", "t", "'", "s", " ", "t", "h", "e", " ", "b", "e", "s",
      "t", " ", "s", "t", "r", "a", "t", "e", "g", "y", " ", "f", "o", "r",
      " ", "m", "y", " ", "d", "e", "b", "t", " ", "s", "i", "t", "u", "a",
      "t", "i", "o", "n", "?">>>>

\* words of typed questions that are no keyword as they stand
Word ==
  [Savings |-> <<"S", "a", "v", "i", "n", "g", "s">>,
   my |-> <<"m", "y">>,
   weather |-> <<"w", "e", "a", "t", "h", "e", "r">>]

\* the questions put to the function: the sample questions, the quick
\* actions, and typed questions of one word or of two words with a space
\* between, the words being the keywords of the topic branches, "fund", one
\* keyword capitalised and two words that are no keyword
Questions ==
  LET TopicWords ==
        {Keyword.emergency, Keyword.debt, Keyword.invest, Keyword.investment,
         Keyword.save, Keyword.savings, Keyword.retirement, Keyword.fund,
         Word.Savings, Word.my, Word.weather}
  IN  TopicWords
        \cup { a \o <<" ">> \o b : a \in TopicWords, b \in TopicWords }
        \cup { sample_questions[i] : i \in 1..Len(sample_questions) }
        \cup { quick_questions[i] : i \in 1..Len(quick_questions) }

\* fhi_context: the four values read with st.session_state.get(key, 0)
FhiContext(state) ==
  [FHI |-> IF "FHI" \in DOMAIN state THEN state["FHI"] ELSE R(0),
   income |-> IF "monthly_income" \in DOMAIN state THEN state["monthly_income"] ELSE 0,
   expenses |-> IF "monthly_expenses" \in DOMAIN state THEN state["monthly_expenses"] ELSE 0,
   savings |-> IF "current_savings" \in DOMAIN state THEN state["current_savings"] ELSE 0]

\* what the calculator stored before the chat is opened: nothing, a low score
\* with a small income, a good score with a larger one
ChatStores ==
  { << >>,
    [FHI |-> R(45), monthly_income |-> 20000, monthly_expenses |-> 15000,
     current_savings |-> 1000],
    [FHI |-> R(75), monthly_income |-> 40000, monthly_expenses |-> 20000,
     current_savings |-> 10000] }

\* a call of get_fallback_response: args holds the question and the context
InitFallback ==
  /\ args \in { [user_question |-> q, fhi_context |-> FhiContext(st)] :
                  q \in Questions, st \in ChatStores }
  /\ ret = << >> /\ val = << >> /\ report = << >>
  /\ IdleSession

CallFallback ==
  /\ ret = << >>
  /\ ret' = <<get_fallback_response(args.user_question, args.fhi_context)>>
  /\ UNCHANGED <<args, val, report, sessionVars>>

SpecFallback == InitFallback /\ [][CallFallback]_vars

\* how many entries a behaviour lets the chat history grow to
MaxChats == 2

\* the questions asked in the chat: the sample questions and one typed word
ChatQuestions ==
  { sample_questions[i] : i \in 1..Len(sample_questions) } \cup {Word.weather}

\* get_ai_response(user_question, fhi_context, model): the text the remote
\* model generated, or, when the call raised, st.error and the value of
\* get_fallback_response.  A response is its text (reply), tagged with what
\* produced it (by).
get_ai_response(user_question, fhi_context) ==
  { [response |-> [by |-> "model", reply |-> "response.text"], shown |-> << >>],
    [response |-> [by |-> "fallback",
                   reply |-> get_fallback_response(user_question, fhi_context)],
     shown |-> <<Msg("error", "AI temporarily unavailable")>>] }

\* the chat page is opened; args holds what initialize_ai() returns on every
\* run of the script (model is set exactly when AI_AVAILABLE is)
InitChat ==
  /\ app \in Apps
  /\ page = "chatbot"
  /\ session \in { Store(InitialSession("app.py"), st) : st \in ChatStores }
  /\ args \in { [AI_AVAILABLE |-> b] : b \in BOOLEAN }
  /\ submitted = << >> /\ computed = FALSE /\ shown = << >>
  /\ ret = << >> /\ val = << >> /\ report = << >>
  /\ widgets = << >>

\* if should_process: the response is obtained, drawn and appended to the
\* chat history of the session state
ProcessQuestion(state, user_question) ==
  LET fhi_context == FhiContext(state)
  IN  /\ Len(state["chat_history"]) < MaxChats
      /\ \E got \in IF args.AI_AVAILABLE
                    THEN get_ai_response(user_question, fhi_context)
                    ELSE {[response |-> [by |-> "fallback",
                                         reply |-> get_fallback_response(user_question,
                                                                         fhi_context)],
                           shown |-> << >>]} :
           LET chat_entry == [question |-> user_question,
                              response |-> got.response,
                              fhi_context |-> fhi_context,
                              was_ai_response |-> args.AI_AVAILABLE]
           IN  /\ session' = Put(state, "chat_history",
                                 Append(state["chat_history"], chat_entry))
               /\ shown' = got.shown \o <<Msg("info", got.response.reply)>>
      /\ submitted' = <<user_question>>
      /\ UNCHANGED <<app, page, computed, widgets, fnVars>>

\* a question is typed and Ask FYNyx is pressed
AskFynyx ==
  /\ page = "chatbot"
  /\ \E user_question \in ChatQuestions : ProcessQuestion(session, user_question)

\* a sample question or, once the history is not empty, a quick action is
\* pressed: the question is put in the session, the script reruns with it as
\* the value of the input and processes it, clearing auto_process_question
AskSample ==
  /\ page = "chatbot"
  /\ \E question \in { sample_questions[i] : i \in 1..Len(sample_questions) }
                      \cup (IF session["chat_history"] # << >>
                            THEN { quick_questions[i] : i \in 1..Len(quick_questions) }
                            ELSE {}) :
       ProcessQuestion(Put(session, "auto_process_question", FALSE), question)

\* the Clear Chat History button, then the rerun
ClearChatHistory ==
  /\ page = "chatbot"
  /\ session' = Put(session, "chat_history", << >>)
  /\ submitted' = << >> /\ shown' = << >>
  /\ UNCHANGED <<app, page, computed, widgets, fnVars>>

SpecChat == InitChat /\ [][AskFynyx \/ AskSample \/ ClearChatHistory]_vars

----------------------------------------------------------------------------
(* Claims about the pure functions *)

Returned == Len(ret) = 1
Validated == Len(val) = 1

AllComponents(v) == \A l \in Labels : ret[1].components[l] = R(v)

\* C1: for every valid profile (age in 18..100, amounts >= 0) each of the five
\* sub-scores returned by calculate_fhi lies in [0,100], also when income or
\* expenses is 0.
C1_SubScoresInRange ==
  Returned => \A l \in Labels : InRange(ret[1].components[l], 0, 100)

\* a call whose savings exceed the income: the Savings Rate is capped at 100
C1_Witness ==
  /\ Returned
  /\ args.monthly_income > 0 /\ args.monthly_savings > args.monthly_income
  /\ ret[1].components["Savings Rate"] = R(100)

\* C2: with nonzero income and expenses the composite FHI lies in [15,100]; it
\* is exactly 100 when all five sub-scores are 100 and exactly 15 when all five
\* are 0.
C2_CompositeRange ==
  (Returned /\ args.monthly_income # 0 /\ args.monthly_expenses # 0)
    => /\ InRange(ret[1].FHI, 15, 100)
       /\ AllComponents(100) => ret[1].FHI = R(100)
       /\ AllComponents(0) => ret[1].FHI = R(15)

\* a profile that scores 100 on every component
C2_Witness ==
  /\ Returned /\ args.monthly_income # 0 /\ args.monthly_expenses # 0
  /\ AllComponents(100)
  /\ ret[1].FHI = R(100)

\* C3: every sub-score is clamped on both sides, so that for negative amounts
\* with positive income and expenses each sub-score stays in [0,100] and the
\* composite in [15,100].
C3_ClampedBothSides ==
  (Returned /\ args.monthly_income > 0 /\ args.monthly_expenses > 0)
    => /\ \A l \in Labels : InRange(ret[1].components[l], 0, 100)
       /\ InRange(ret[1].FHI, 15, 100)

\* C5: validate_financial_inputs returns one error exactly when debt > income,
\* one warning for expenses > income, one for savings + expenses + debt >
\* income * 1.1, and nothing else; equality at a threshold gives no message.
Count(seq, x) == Cardinality({i \in 1..Len(seq) : seq[i] = x})

C5_ValidatorMessages ==
  Validated =>
    LET income == args.monthly_income
        expenses == args.monthly_expenses
        debt == args.monthly_debt
        total == args.monthly_savings + args.monthly_expenses + args.monthly_debt
        nErr == IF debt > income THEN 1 ELSE 0
        nExp == IF expenses > income THEN 1 ELSE 0
        nTot == IF 10 * total > 11 * income THEN 1 ELSE 0
    IN  /\ (val[1].errors # << >>) <=> (debt > income)
        /\ Len(val[1].errors) = nErr
        /\ Count(val[1].errors, ErrDebt) = nErr
        /\ Count(val[1].warnings, WarnExpenses) = nExp
        /\ Count(val[1].warnings, WarnTotal) = nTot
        /\ Len(val[1].warnings) = nExp + nTot
        /\ (debt = income) => val[1].errors = << >>
        /\ (expenses = income) => Count(val[1].warnings, WarnExpenses) = 0
        /\ (10 * total = 11 * income) => Count(val[1].warnings, WarnTotal) = 0

\* expenses equal to a positive income and obligations of exactly income * 1.1
\* (10 + 1 + 0 against 11): neither warning, and no error
C5_Witness ==
  /\ Validated
  /\ args.monthly_income > 0
  /\ args.monthly_expenses = args.monthly_income
  /\ 10 * (args.monthly_savings + args.monthly_expenses + args.monthly_debt)
       = 11 * args.monthly_income
  /\ val[1] = [errors |-> << >>, warnings |-> << >>]

\* C8: the composite is 0.20*NetWorth + 0.15*DebtToIncome + 0.15*SavingsRate +
\* 0.15*Investment + 0.20*EmergencyFund + 15 over the clamped sub-scores
\* NetWorth = clamp(netWorth/(12*income*alpha)*100), DebtToIncome = 100 -
\* clamp(debt/income*100), SavingsRate = clamp(savings/income*100), Investment
\* = clamp(investments/(beta*12*income)*100), EmergencyFund =
\* clamp((emergencyFund/expenses)/6*100), with no clamp after the sum.
Clamp(q) == IF RatLt(q, R(0)) THEN R(0) ELSE IF RatGt(q, R(100)) THEN R(100) ELSE q

C8_CompositeFormula ==
  (Returned /\ args.monthly_income > 0 /\ args.monthly_expenses > 0) =>
    LET m == TargetMultipliers(args.age)
        y == 12 * args.monthly_income
        NetWorth == Clamp(Frac(args.net_worth * 100 * m.alpha.d, y * m.alpha.n))
        DebtToIncome ==
          RatSub(R(100), Clamp(Frac(args.monthly_debt * 100, args.monthly_income)))
        SavingsRate == Clamp(Frac(args.monthly_savings * 100, args.monthly_income))
        Investment == Clamp(Frac(args.total_investments * 100 * m.beta.d, y * m.beta.n))
        EmergencyFund == Clamp(Frac(args.emergency_fund * 100, 6 * args.monthly_expenses))
        sum == RatAdd(Frac(20 * NetWorth.n, 100 * NetWorth.d),
               RatAdd(Frac(15 * DebtToIncome.n, 100 * DebtToIncome.d),
               RatAdd(Frac(15 * SavingsRate.n, 100 * SavingsRate.d),
               RatAdd(Frac(15 * Investment.n, 100 * Investment.d),
               RatAdd(Frac(20 * EmergencyFund.n, 100 * EmergencyFund.d), R(15))))))
    IN  /\ ret[1].components["Net Worth"] = NetWorth
        /\ ret[1].components["Debt-to-Income"] = DebtToIncome
        /\ ret[1].components["Savings Rate"] = SavingsRate
        /\ ret[1].components["Investment"] = Investment
        /\ ret[1].components["Emergency Fund"] = EmergencyFund
        /\ ret[1].FHI = sum

\* a profile with every sub-score strictly between 0 and 100
C8_Witness ==
  /\ Returned /\ args.monthly_income > 0 /\ args.monthly_expenses > 0
  /\ \A l \in Labels : /\ RatLt(R(0), ret[1].components[l])
                       /\ RatLt(ret[1].components[l], R(100))
  /\ RatLt(R(15), ret[1].FHI) /\ RatLt(ret[1].FHI, R(100))

\* C9: alpha, beta by age: < 30 -> (2.5, 2.0); 30..39 -> (3.0, 3.0); 40..49 ->
\* (3.5, 4.0); >= 50 -> (4.0, 5.0); every age in 18..100 is in exactly one
\* bracket, the ages 30, 40 and 50 in the higher one.
AgeBrackets ==
  { [lo |-> MinAge, hi |-> 29, alpha |-> Frac(25, 10), beta |-> Frac(20, 10)],
    [lo |-> 30, hi |-> 39, alpha |-> Frac(30, 10), beta |-> Frac(30, 10)],
    [lo |-> 40, hi |-> 49, alpha |-> Frac(35, 10), beta |-> Frac(40, 10)],
    [lo |-> 50, hi |-> MaxAge, alpha |-> Frac(40, 10), beta |-> Frac(50, 10)] }

C9_AgeBrackets ==
  Returned =>
    LET in == {b \in AgeBrackets : b.lo <= args.age /\ args.age <= b.hi}
        y == 12 * args.monthly_income
    IN  /\ Cardinality(in) = 1
        /\ \A b \in in :
             /\ TargetMultipliers(args.age) = [alpha |-> b.alpha, beta |-> b.beta]
             /\ args.monthly_income > 0 =>
                  /\ ret[1].components["Net Worth"]
                       = Clamp(Frac(args.net_worth * 100 * b.alpha.d, y * b.alpha.n))
                  /\ ret[1].components["Investment"]
                       = Clamp(Frac(args.total_investments * 100 * b.beta.d, y * b.beta.n))

\* age 40 scored with the multipliers of the 40..49 bracket (3.5, 4.0):
\* net worth 30 against 12 * 2 * 3.5 = 84, investments 30 against 96
C9_Witness ==
  /\ Returned /\ args.age = 40
  /\ args.monthly_income = 2 /\ args.net_worth = 30 /\ args.total_investments = 30
  /\ ret[1].components["Net Worth"] = Frac(3000, 84)
  /\ ret[1].components["Investment"] = Frac(3000, 96)

\* C10: calculate_fhi never divides by zero for non-negative input: with
\* income 0 the Net Worth, Debt-to-Income, Savings Rate and Investment
\* sub-scores are 0, with expenses 0 the Emergency Fund sub-score is 0.
C10_NoZeroDivision ==
  Returned =>
    /\ ~IsRaised(ret[1].FHI)
    /\ \A l \in Labels : ~IsRaised(ret[1].components[l])
    /\ args.monthly_income = 0 =>
         \A l \in Labels \ {"Emergency Fund"} : ret[1].components[l] = R(0)
    /\ args.monthly_expenses = 0 => ret[1].components["Emergency Fund"] = R(0)

\* income and expenses both 0 with every other amount positive
C10_Witness ==
  /\ Returned
  /\ args.monthly_income = 0 /\ args.monthly_expenses = 0
  /\ args.monthly_debt > 0 /\ args.monthly_savings > 0 /\ args.net_worth > 0
  /\ args.total_investments > 0 /\ args.emergency_fund > 0
  /\ ret[1].FHI = R(15)

----------------------------------------------------------------------------
(* Claims about the calculators in a session *)

\* the script run that drew the current page was started by the button
JustPressed == submitted # << >>

Has(list, m) == \E i \in 1..Len(list) : list[i] = m

\* C4: when validation reports an error (debt > income) the calculator computes
\* no score and leaves the stored FHI, monthly_income, monthly_expenses,
\* current_savings and components as they were before the button press, at
\* every calculator entry point of the repository.
C4_ErrorBlocksCalculation ==
  [][ (/\ submitted' # << >>
       /\ submitted'[1].monthly_debt > submitted'[1].monthly_income)
      => (~computed' /\ session' = session) ]_vars

\* C6: warnings never block: with no validation error and nonzero income and
\* expenses the calculator computes and stores a score whether or not there
\* are warnings, and every warning produced is shown with that result.
C6_WarningsDoNotBlock ==
  (/\ JustPressed
   /\ submitted[1].monthly_debt <= submitted[1].monthly_income
   /\ submitted[1].monthly_income # 0 /\ submitted[1].monthly_expenses # 0)
  => LET f == submitted[1]
         total == f.monthly_savings + f.monthly_expenses + f.monthly_debt
     IN  /\ computed
         /\ required_keys \subseteq DOMAIN session
         /\ session["monthly_income"] = f.monthly_income
         /\ session["monthly_expenses"] = f.monthly_expenses
         /\ session["current_savings"] = f.monthly_savings
         /\ Has(shown, ScoreLine(session["FHI"]))
         /\ app = "app.py" =>
              /\ session["FHI"] \in Round2Outcomes(AppLocals[f].r.FHI)
              /\ session["components"] = AppLocals[f].r.components
              /\ f.monthly_expenses > f.monthly_income
                   => Has(shown, Msg("warning", WarnExpenses))
              /\ 10 * total > 11 * f.monthly_income
                   => Has(shown, Msg("warning", WarnTotal))

\* app.py computed a score for a form that produced both warnings and drew
\* the two warnings and the score in one run
C6_Witness ==
  /\ app = "app.py" /\ JustPressed /\ computed
  /\ submitted[1].monthly_expenses > submitted[1].monthly_income
  /\ Len(shown) = 4
  /\ shown[1] = Msg("warning", WarnExpenses)
  /\ shown[2] = Msg("warning", WarnTotal)
  /\ shown[3] = ScoreLine(session["FHI"])

\* the Goal Tracker got past its gate and evaluates the goals
GoalTrackerEvaluates ==
  /\ page = "goal_tracker"
  /\ shown # <<Msg("warning", TextHomepage)>>
  /\ shown # <<Msg("info", TextCalculateFirst)>>

\* C7: the score model is invoked only with income and expenses both nonzero;
\* so whenever an FHI is stored the stored monthly_income and monthly_expenses
\* are > 0, and the Goal Tracker, which requires a stored FHI, never evaluates
\* a goal with zero income or zero expenses.
C7_StoredIncomeExpensesPositive ==
  /\ computed => /\ submitted[1].monthly_income # 0
                 /\ submitted[1].monthly_expenses # 0
  /\ "FHI" \in DOMAIN session =>
       /\ required_keys \subseteq DOMAIN session
       /\ session["monthly_income"] > 0
       /\ session["monthly_expenses"] > 0
  /\ GoalTrackerEvaluates => "FHI" \in DOMAIN session

\* the Goal Tracker page of Fynstra.py open past its gate
C7_Witness ==
  /\ app = "Fynstra.py" /\ GoalTrackerEvaluates
  /\ "goals" \in DOMAIN session
  /\ session["monthly_income"] > 0 /\ session["monthly_expenses"] > 0

----------------------------------------------------------------------------
(* Claims about the narrative *)

Narrated == Len(report) = 1

C11_Messages ==
  [success |-> "Excellent! You're in great financial shape and well-prepared for the future.",
   info |-> "Good! You have a solid foundation. Stay consistent and work on gaps where needed.",
   warning |-> "Fair. You're on your way, but some areas need attention to build a stronger safety net.",
   error |-> "Needs Improvement. Your finances require urgent attention - prioritize stabilizing your income, debt, and savings."]

\* C11: the tier is a total function of the composite FHI with exactly one
\* tier per value: Excellent (st.success) exactly when FHI >= 85, Good
\* (st.info) exactly when 70 <= FHI < 85, Fair (st.warning) exactly when
\* 50 <= FHI < 70, Needs Improvement (st.error) exactly when FHI < 50; the
\* message drawn is the tier's one fixed headline followed by the addendum.
C11_TierPartition ==
  Narrated =>
    LET FHI == ret[1].FHI
        out == report[1].output
    IN  /\ out.kind \in {"success", "info", "warning", "error"}
        /\ (out.kind = "success") <=> RatGe(FHI, R(85))
        /\ (out.kind = "info") <=> (RatGe(FHI, R(70)) /\ RatLt(FHI, R(85)))
        /\ (out.kind = "warning") <=> (RatGe(FHI, R(50)) /\ RatLt(FHI, R(70)))
        /\ (out.kind = "error") <=> RatLt(FHI, R(50))
        /\ out.text = C11_Messages[out.kind] \o report[1].weak_text

\* a score of exactly 85, reported as Excellent
C11_Witness ==
  /\ Narrated
  /\ ret[1].FHI = R(85)
  /\ report[1].output.kind = "success"

C12_Canonical ==
  <<"Net Worth", "Debt-to-Income", "Savings Rate", "Investment", "Emergency Fund">>

\* the place of a weak-area name in the canonical order
C12_Place(name) ==
  CHOOSE i \in 1..Len(C12_Canonical) : WeakName(app)[C12_Canonical[i]] = name

\* C12: the weak-area list holds exactly the sub-components whose score is
\* strictly below 60 (a score of exactly 60 is not weak), each once, in the
\* order Net Worth, Debt-to-Income, Savings Rate, Investment, Emergency Fund.
C12_WeakAreas ==
  Narrated =>
    LET c == ret[1].components
        weak == report[1].weak_areas
    IN  /\ \A i \in 1..Len(C12_Canonical) :
             Has(weak, WeakName(app)[C12_Canonical[i]])
               <=> RatLt(c[C12_Canonical[i]], R(60))
        /\ \A i, j \in 1..Len(weak) :
             i < j => C12_Place(weak[i]) < C12_Place(weak[j])

\* a score of exactly 60 between two weak ones
C12_Witness ==
  /\ Narrated
  /\ ret[1].components["Net Worth"] = R(59)
  /\ ret[1].components["Savings Rate"] = R(60)
  /\ ret[1].components["Emergency Fund"] = R(0)
  /\ report[1].weak_areas = <<"net worth", "emergency fund">>

C13_Closing == " Addressing this will help strengthen your overall financial health."

\* the first n - 1 names joined by ", ", for the list lengths the five
\* sub-scores allow
C13_AllButLast(weak) ==
  CASE Len(weak) = 2 -> weak[1]
    [] Len(weak) = 3 -> weak[1] \o ", " \o weak[2]
    [] Len(weak) = 4 -> weak[1] \o ", " \o weak[2] \o ", " \o weak[3]
    [] Len(weak) = 5 -> weak[1] \o ", " \o weak[2] \o ", " \o weak[3] \o ", " \o weak[4]

\* C13: the addendum is empty when there is no weak area; with one weak area
\* X it is "However, your X needs improvement."; with n >= 2 it is "However,
\* your <first n-1 joined by ', '> and <last> need improvement." with no comma
\* before the "and"; the closing sentence follows exactly when the list is not
\* empty; the addendum is attached to the headline of whichever tier applies.
C13_Addendum ==
  Narrated =>
    LET weak == report[1].weak_areas
        text == report[1].weak_text
    IN  /\ Len(weak) = 0 => text = ""
        /\ Len(weak) = 1 =>
             text = " However, your " \o weak[1] \o " needs improvement." \o C13_Closing
        /\ Len(weak) >= 2 =>
             text = " However, your " \o C13_AllButLast(weak) \o " and "
                      \o weak[Len(weak)] \o " need improvement." \o C13_Closing
        /\ report[1].output.text = C11_Messages[report[1].output.kind] \o text

\* three weak areas under the headline of the Fair tier
C13_Witness ==
  /\ Narrated
  /\ app = "Fynstra.py"
  /\ report[1].output.kind = "warning"
  /\ report[1].weak_areas = <<"debt-to-income ratio", "savings rate", "investment levels">>
  /\ report[1].weak_text = " However, your debt-to-income ratio, savings rate and investment levels need improvement. Addressing this will help strengthen your overall financial health."

\* C14: the interpretation of a sub-score is chosen by its tier (score < 40,
\* 40 <= score < 70, score >= 70), and the suggestions are exactly three and
\* depend on the label alone.
C14_Interpretation ==
  Narrated =>
    \A l \in Labels :
      LET score == ret[1].components[l]
          em == IF app = "app.py" THEN "**" ELSE "*"
          got == report[1].breakdown[l]
      IN  /\ RatLt(score, R(40)) => got[1] = Interpretations(em, l)[1]
          /\ (RatGe(score, R(40)) /\ RatLt(score, R(70))) => got[1] = Interpretations(em, l)[2]
          /\ RatGe(score, R(70)) => got[1] = Interpretations(em, l)[3]
          /\ Len(got[2]) = 3
          /\ got[2] = Suggestions(l)

\* the scores 40 and 70 take the middle and the top sentence
C14_Witness ==
  /\ Narrated
  /\ app = "app.py"
  /\ ret[1].components["Savings Rate"] = R(40)
  /\ ret[1].components["Investment"] = R(70)
  /\ ret[1].components["Net Worth"] = R(39)
  /\ report[1].breakdown["Savings Rate"][1] = "Your **savings rate is okay**, but can be improved."
  /\ report[1].breakdown["Investment"][1] = "You're **investing well** and building wealth."
  /\ report[1].breakdown["Net Worth"][1] = "Your **net worth is low** relative to your income."

----------------------------------------------------------------------------
(* Claims about the scores as functions of one input *)

\* profiles of a young and an old user in which the net worth and the debt
\* run from nothing to beyond the caps of their sub-scores, for every income
MonoProfiles ==
  { Profile(age, mi, me, 1, md, ti, nw, 3) :
      age \in {29, 50}, mi \in MonthlyVals, me \in MonthlyVals, md \in MonthlyVals,
      ti \in StockVals, nw \in StockVals }

InitMono == /\ args \in MonoProfiles
            /\ ret = << >> /\ val = << >> /\ report = << >>
            /\ IdleSession

NextMono == CallCalculateFhi

SpecMono == InitMono /\ [][NextMono]_vars

\* what calculate_fhi returns for the profile a
C20_Call(a) ==
  calculate_fhi(a.age, a.monthly_income, a.monthly_expenses, a.monthly_savings,
                a.monthly_debt, a.total_investments, a.net_worth, a.emergency_fund)

\* C20: with every other input held fixed, a larger net worth never lowers the
\* Net Worth sub-score and a larger monthly debt never raises the
\* Debt-to-Income sub-score; neither change moves the composite FHI the other
\* way. Stated for one step of each input; the steps chain over the range.
C20_Monotone ==
  Returned =>
    LET more_worth == C20_Call([args EXCEPT !.net_worth = @ + 30])
        more_debt == C20_Call([args EXCEPT !.monthly_debt = @ + 1])
    IN  /\ RatGe(more_worth.components["Net Worth"], ret[1].components["Net Worth"])
        /\ RatGe(more_worth.FHI, ret[1].FHI)
        /\ RatLe(more_debt.components["Debt-to-Income"], ret[1].components["Debt-to-Income"])
        /\ RatLe(more_debt.FHI, ret[1].FHI)

\* a profile whose Net Worth score is below the cap and whose debt is below
\* the income, so that both steps change a sub-score
C20_Witness ==
  /\ Returned
  /\ RatLt(ret[1].components["Net Worth"], R(100))
  /\ RatGt(ret[1].components["Net Worth"], R(0))
  /\ RatGt(ret[1].components["Debt-to-Income"], R(0))
  /\ RatLt(ret[1].components["Debt-to-Income"], R(100))
  /\ RatGt(C20_Call([args EXCEPT !.net_worth = @ + 30]).FHI, ret[1].FHI)
  /\ RatLt(C20_Call([args EXCEPT !.monthly_debt = @ + 1]).FHI, ret[1].FHI)

----------------------------------------------------------------------------
(* Claims about the Goal Tracker *)

\* the spending capacity of the session: max(income - expenses, 0)
AvailableCapacity ==
  RatMax(R(session["monthly_income"] - session["monthly_expenses"]), R(0))

\* max(goalAmount - currentSavings, 0) / monthsRemaining
RequiredSaving(goal_amount, months) ==
  RatDiv(RatMax(R(goal_amount - session["current_savings"]), R(0)), R(months))

SliderDrawn == "min_fhi_slider" \in DOMAIN widgets

\* the effective minimum FHI of a goal: the current FHI when the recommended
\* minimum is used, else the override chosen on the slider
EffectiveMinFhi(use_recommended_fhi) ==
  IF use_recommended_fhi THEN session["FHI"] ELSE R(widgets["min_fhi_slider"])

C15_TabRule(e) ==
  e.on_track <=> RatLe(RequiredSaving(e.goal_amount, e.goal_months), AvailableCapacity)

C15_GoalRule(e) ==
  e.on_track <=> /\ RatLe(RequiredSaving(e.goal_amount, e.months), AvailableCapacity)
                 /\ RatGe(session["FHI"], EffectiveMinFhi(e.use_recommended_fhi))

\* C15: a goal is reported on track exactly when the required monthly saving
\* is at most the spending capacity max(income - expenses, 0) and the current
\* FHI is at least the effective minimum FHI, at every entry point: the goal
\* cards, the status check of the goal detail, and the Goal Tracker tab of
\* app.py (which has no minimum FHI to set).  A card is compared when its
\* goal's effective minimum is known: the recommended one, or the override on
\* the slider of the open detail.
C15_OnTrackRule ==
  \A i \in 1..Len(shown) :
    LET e == shown[i]
    IN  /\ e.kind = "tab" => C15_TabRule(e)
        /\ e.kind = "status" => C15_GoalRule(e)
        /\ (e.kind = "card" /\ (e.use_recommended_fhi \/ SliderDrawn)) => C15_GoalRule(e)

\* C16: the effective minimum FHI of a goal is the current FHI when the
\* recommended minimum is used and the override chosen in [0, 100] otherwise;
\* the card of a goal and the status check of its detail use the same
\* effective minimum and report the same on-track status for the same goal
\* (the same amount, date and setting).
C16_SameMinimum ==
  \A i, j \in 1..Len(shown) :
    LET card == shown[i]
        status == shown[j]
    IN  ( /\ card.kind = "card" /\ status.kind = "status"
          /\ card.goal_id = status.goal_id
          /\ card.goal_amount = status.goal_amount
          /\ card.target_date = status.target_date
          /\ card.use_recommended_fhi = status.use_recommended_fhi )
        => /\ status.min_fhi = EffectiveMinFhi(status.use_recommended_fhi)
           /\ RatGe(status.min_fhi, R(0)) /\ RatLe(status.min_fhi, R(100))
           /\ card.min_fhi = status.min_fhi
           /\ card.on_track = status.on_track

\* the cards and status checks among the elements drawn
GoalElements == { i \in 1..Len(shown) : shown[i].kind \in {"card", "status"} }

\* C17: the months remaining are max(floor(days until the target / 30), 1):
\* never below 1, exactly 1 for a target today, in the past or fewer than 60
\* days ahead; so the division that gives the required monthly saving never
\* divides by zero.
C17_MonthsAtLeastOne ==
  \A i \in GoalElements :
    LET e == shown[i]
        days == e.target_date - today
    IN  /\ e.months >= 1
        /\ days < 60 => e.months = 1
        /\ days >= 30 => (30 * e.months <= days /\ days < 30 * (e.months + 1))
        /\ ~IsRaised(e.required_monthly_saving)

\* the card of a goal that was due yesterday, and its detail with the date
\* input at today: one month each
C17_Witness ==
  /\ Len(shown) = 2
  /\ shown[1].kind = "card" /\ shown[1].target_date = -1 /\ shown[1].months = 1
  /\ shown[2].kind = "status" /\ shown[2].target_date = today /\ shown[2].months = 1

\* C18: the required monthly saving is max(goal amount - current savings, 0)
\* divided by the months remaining: never negative, and exactly 0 when the
\* savings reach the goal amount, in which case it is affordable whatever the
\* income and expenses are.
C18_RequiredSaving ==
  \A i \in GoalElements :
    LET e == shown[i]
        required == e.required_monthly_saving
    IN  /\ required = RequiredSaving(e.goal_amount, e.months)
        /\ RatGe(required, R(0))
        /\ (required = R(0)) <=> (session["current_savings"] >= e.goal_amount)
        /\ session["current_savings"] >= e.goal_amount =>
             /\ RatLe(required, e.available_to_save)
             /\ e.on_track <=> RatGe(session["FHI"], e.min_fhi)

\* savings beyond the goal amount and nothing left to save each month: the
\* status check reports the goal on track
C18_Witness ==
  /\ Len(shown) = 2
  /\ shown[2].kind = "status"
  /\ session["current_savings"] > shown[2].goal_amount
  /\ session["monthly_expenses"] >= session["monthly_income"]
  /\ shown[2].available_to_save = R(0)
  /\ shown[2].required_monthly_saving = R(0)
  /\ shown[2].on_track

C19_Order ==
  <<"- Improve your FHI by reducing debt or increasing savings.",
    "- Reduce non-essential expenses.",
    "- Start an emergency fund.",
    "- Extend your goal deadline.",
    "- Increase your income (e.g., side hustles).">>

C19_Rank(text) == CHOOSE k \in 1..Len(C19_Order) : C19_Order[k] = text

\* C19: when the goal is not on track the suggestions are, in this order:
\* "improve FHI" exactly when FHI < minimum FHI, "reduce expenses" exactly when
\* expenses > half the income, "start an emergency fund" exactly when the
\* savings are 0, then always "extend the deadline" and "increase the income";
\* the list has between 2 and 5 entries and ends with the two fallbacks; when
\* the goal is on track no suggestion is drawn.
C19_Suggestions ==
  \A i \in 1..Len(shown) :
    shown[i].kind = "status" =>
      LET e == shown[i]
          s == e.suggestions
      IN  IF e.on_track THEN s = << >>
          ELSE /\ Len(s) >= 2 /\ Len(s) <= 5
               /\ \A k \in 1..Len(s) : \E r \in 1..Len(C19_Order) : s[k] = C19_Order[r]
               /\ \A a, b \in 1..Len(s) : a < b => C19_Rank(s[a]) < C19_Rank(s[b])
               /\ Has(s, C19_Order[1]) <=> RatLt(session["FHI"], e.min_fhi)
               /\ Has(s, C19_Order[2])
                    <=> 2 * session["monthly_expenses"] > session["monthly_income"]
               /\ Has(s, C19_Order[3]) <=> session["current_savings"] = 0
               /\ s[Len(s) - 1] = C19_Order[4]
               /\ s[Len(s)] = C19_Order[5]

\* all five suggestions under a status check that is not on track
C19_Witness ==
  /\ Len(shown) = 2
  /\ shown[2].kind = "status"
  /\ ~shown[2].on_track
  /\ shown[2].suggestions = C19_Order

----------------------------------------------------------------------------
(* Claims about single sub-scores and one worked profile *)

ScenarioA == Profile(25, 50000, 30000, 5000, 5000, 20000, 100000, 90000)

\* C22: the profile age 25, income 50000, expenses 30000, savings 5000, debt
\* 5000, investments 20000, net worth 100000, emergency fund 90000 passes the
\* validation with no error and scores Debt-to-Income 90, Savings Rate 10,
\* Emergency Fund 50, Net Worth 6.67 and Investment 1.67 to two decimals; the
\* rounded FHI is 41.58, the weak areas are net worth, savings rate,
\* investment and emergency fund in this order, the tier is Needs Improvement.
C22_ScenarioA ==
  (app = "app.py" /\ submitted = <<ScenarioA>>) =>
    /\ val # << >> /\ val[1].errors = << >>
    /\ computed /\ ret # << >> /\ report # << >>
    /\ ret[1].components["Debt-to-Income"] = R(90)
    /\ ret[1].components["Savings Rate"] = R(10)
    /\ ret[1].components["Emergency Fund"] = R(50)
    /\ Round2Outcomes(ret[1].components["Net Worth"]) = {Frac(667, 100)}
    /\ Round2Outcomes(ret[1].components["Investment"]) = {Frac(167, 100)}
    /\ session["FHI"] = Frac(4158, 100)
    /\ shown[Len(shown) - 1] = ScoreLine(Frac(4158, 100))
    /\ report[1].weak_areas =
         <<lower["Net Worth"], lower["Savings Rate"], lower["Investment"],
           lower["Emergency Fund"]>>
    /\ shown[Len(shown)] = Msg("error", "Needs Improvement.")
    /\ report[1].output.kind = "error"

\* the handler of app.py has run on the worked profile
C22_Witness ==
  /\ app = "app.py" /\ submitted = <<ScenarioA>> /\ computed
  /\ "FHI" \in DOMAIN session

\* C24: the tier the final output announces is the tier of the score shown
\* beside it: the thresholds 85, 70 and 50 applied to the rounded FHI that is
\* displayed and stored give the tier announced.
C24_TierOfDisplayed ==
  computed =>
    LET score == shown[Len(shown) - 1]
        tier == shown[Len(shown)]
    IN  /\ score = ScoreLine(session["FHI"])
        /\ Headline(score.value) = tier

----------------------------------------------------------------------------
(* Claims about the functions as functions *)

\* the calls made so far returned one and the same value
C23_SameResult == \A i, j \in 1..Len(ret) : ret[i] = ret[j]

\* a step in which a call returns leaves the session as it was
C23_Frame == (ret' # ret) => UNCHANGED sessionVars

----------------------------------------------------------------------------
(* Claims about the goals of the Goal Tracker page *)

\* C26: for a goal that uses the recommended minimum, the effective minimum
\* FHI is the current FHI, so the FHI condition always holds: the goal is on
\* track exactly when the required monthly saving is at most the spending
\* capacity, and the suggestion to improve the FHI is never drawn.
C26_Recommended ==
  \A i \in GoalElements :
    LET e == shown[i]
    IN  e.use_recommended_fhi =>
          /\ e.min_fhi = session["FHI"]
          /\ RatGe(session["FHI"], e.min_fhi)
          /\ e.on_track <=> RatLe(RequiredSaving(e.goal_amount, e.months), AvailableCapacity)
          /\ e.kind = "status" => ~Has(e.suggestions, TextImproveFhi)

\* the detail of a goal with the recommended minimum that is not on track, and
\* one that is
C26_Witness ==
  /\ Len(shown) = 2
  /\ shown[2].kind = "status" /\ shown[2].use_recommended_fhi
  /\ ~shown[2].on_track /\ shown[2].suggestions # << >>
  /\ shown[1].use_recommended_fhi /\ shown[1].on_track

C26_WitnessOnTrack ==
  /\ Len(shown) = 2
  /\ shown[2].kind = "status" /\ shown[2].use_recommended_fhi /\ shown[2].on_track

\* the stored goal with the key goal_id
GoalOf(state, goal_id) == state["goals"][GoalIndex(state["goals"], goal_id)]

\* the three stored fields of a goal that the detail's inputs edit
GoalFields(goal) == <<goal.goal_amount, goal.target_date, goal.use_recommended_fhi>>

\* a goal is viewed: selected_goal becomes its key and no goal is added
C25_Viewed ==
  /\ session'["selected_goal"] # None
  /\ session'["selected_goal"] # session["selected_goal"]
  /\ Len(session'["goals"]) = Len(session["goals"])

\* a viewed goal is saved with the inputs as they stand
C25_Saved == SaveGoal

\* C25: viewing a goal and saving it with no input changed leaves its stored
\* goal_amount, target_date and use_recommended_fhi as they were before it was
\* viewed, and the stored fields of every other goal as they were.
C25_ViewSaveFrame ==
  [][(C25_Viewed \/ C25_Saved) =>
       /\ GoalKeys(session'["goals"]) = GoalKeys(session["goals"])
       /\ \A k \in GoalKeys(session["goals"]) :
            GoalFields(GoalOf(session', k)) = GoalFields(GoalOf(session, k))]_vars

\* saving alone keeps the three fields of every goal
C25_SaveKeeps ==
  [][C25_Saved =>
       \A k \in GoalKeys(session["goals"]) :
         GoalFields(GoalOf(session', k)) = GoalFields(GoalOf(session, k))]_vars

\* the goal ids present never shrink, and a goal's id stays at its key
C30_NoRemoval == GoalKeys(session["goals"]) \subseteq GoalKeys(session'["goals"])

\* a step that adds a goal adds exactly one, under a key that was not
\* present, and selects it
C30_AddsOne ==
  Len(session'["goals"]) # Len(session["goals"]) =>
    /\ Len(session'["goals"]) = Len(session["goals"]) + 1
    /\ \E k \in GoalKeys(session'["goals"]) \ GoalKeys(session["goals"]) :
         /\ GoalKeys(session'["goals"]) = GoalKeys(session["goals"]) \cup {k}
         /\ session'["selected_goal"] = k

C30_SaveDeselects == SaveGoal => session'["selected_goal"] = None

\* selected_goal is None or the key of a goal that is present, and no two
\* goals share a key
C30_SelectedPresent ==
  /\ session["selected_goal"] = None \/ session["selected_goal"] \in GoalKeys(session["goals"])
  /\ Cardinality(GoalKeys(session["goals"])) = Len(session["goals"])

\* C30: after any sequence of Add New Goal, View and Save Goal, selected_goal
\* is None or the id of a goal that is present; Add New Goal adds exactly one
\* goal under a fresh id and selects it; Save Goal sets selected_goal to None;
\* no action removes a goal.
C30_Selection ==
  /\ [](C30_SelectedPresent)
  /\ [][C30_NoRemoval /\ C30_AddsOne /\ C30_SaveDeselects]_vars

\* two goals, the second one added while the first was saved, and selected
C30_Witness ==
  /\ Len(session["goals"]) = 2
  /\ session["selected_goal"] = session["goals"][2].id
  /\ shown[Len(shown)].kind = "status"

\* two goals and none selected: the second was added and saved
C30_WitnessSaved ==
  /\ Len(session["goals"]) = 2
  /\ session["selected_goal"] = None

----------------------------------------------------------------------------
(* Claims about the Budget Tracker *)

\* edit_index is None or the index of the entry the user chose to edit
C27_IndexValid ==
  session["edit_index"] # << >> =>
    /\ session["edit_index"][1] \in 0..(Len(session["budget_entries"]) - 1)
    /\ val # << >>
    /\ session["budget_entries"][session["edit_index"][1] + 1] = val[1]

\* a submission while editing replaces the entry at edit_index and keeps the
\* number of entries; a submission while not editing appends one entry
C27_SubmitRule ==
  (submitted' # << >>) =>
    LET entries == session["budget_entries"]
        after == session'["budget_entries"]
    IN  IF session["edit_index"] # << >>
        THEN /\ Len(after) = Len(entries)
             /\ session["edit_index"][1] < Len(entries)
             /\ after = [entries EXCEPT ![session["edit_index"][1] + 1] = submitted'[1]]
        ELSE after = Append(entries, submitted'[1])

\* C27: in the Budget Tracker, after any sequence of Add Entry, Edit, Delete
\* and form submissions, edit_index is None or a valid index of
\* budget_entries that still refers to the entry chosen for editing; a
\* submission while editing replaces exactly that entry and keeps the number
\* of entries, a submission while not editing appends exactly one entry.
C27_EditIndex == [](C27_IndexValid) /\ [][C27_SubmitRule]_vars

----------------------------------------------------------------------------
(* Claims about the FYNyx chat *)

\* the topic branches in their priority order, each with its keywords
C29_Topics ==
  <<[branch |-> "emergency", keywords |-> {Keyword.emergency}],
    [branch |-> "debt", keywords |-> {Keyword.debt}],
    [branch |-> "invest", keywords |-> {Keyword.invest, Keyword.investment}],
    [branch |-> "save", keywords |-> {Keyword.save, Keyword.savings}],
    [branch |-> "retirement", keywords |-> {Keyword.retirement}]>>

C29_Matches(q, i) == \E k \in C29_Topics[i].keywords : Contains(str_lower(q), k)

\* C29: a question that contains a keyword of a topic branch (emergency, debt,
\* invest or investment, save or savings, retirement) passes the gate of
\* get_fallback_response and is answered by the first matching branch in
\* this order; in particular a question with "savings" gets the savings-rate
\* answer, never the redirect for non-financial questions.
C29_TopicAnswered ==
  ret # << >> =>
    \A i \in 1..Len(C29_Topics) :
      (C29_Matches(args.user_question, i)
        /\ \A j \in 1..(i - 1) : ~C29_Matches(args.user_question, j))
      => ret[1].branch = C29_Topics[i].branch

\* C28: every entry of the chat history has was_ai_response true exactly when
\* its response was produced by the remote model; a response of the keyword
\* fallback, also the one get_ai_response falls back to when the model call
\* raises, is recorded with was_ai_response false.
C28_FlagMatchesSource ==
  page = "chatbot" =>
    \A i \in 1..Len(session["chat_history"]) :
      LET chat == session["chat_history"][i]
      IN  chat.was_ai_response <=> chat.response.by = "model"

====
